---------------------------- MODULE Spec2Model ----------------------------
(***************************************************************************)
(* Self Session v0: the session state machine, its audit log and the       *)
(* authority-token manager, as state machines translated from              *)
(*   src/Self_Session_v0_StateMachine.py                                   *)
(*   src/Self_Session_v0_Authority.py                                      *)
(*   src/Self_Session_v0_Confirmation.py                                   *)
(*                                                                         *)
(* Configuration modelled: one SessionStateMachine, and the managers       *)
(* constructed with that machine's AuditLog (Tests.setUp, line 46), so     *)
(* the `if self._audit_log:` branches are taken (AuditLog defines neither  *)
(* __bool__ nor __len__, an instance is always truthy).                    *)
(*                                                                         *)
(* Python's Optional[T] is modelled as a sequence of length 0 or 1:        *)
(* None is << >>, a present value x is <<x>>.  datetimes are integers      *)
(* (seconds); timedelta(seconds = n) is n.  A formatted string is the      *)
(* tuple of its parts.                                                     *)
(***************************************************************************)
EXTENDS Integers, Sequences, FiniteSets, TLC

\* ------------------------------------------------------------------ bounds
\* The wall clock (datetime.utcnow) and every caller-supplied time range
\* over 0 .. MaxTime.
MaxTime == 1
\* Successful state-machine operations stop once the log holds this many entries.
MaxLogSM == 6
\* Authority-manager operations stop once the log holds this many entries.
MaxLogAuth == 3
\* At most this many authority tokens are issued.
MaxTokens == 2
\* Confirmation-manager operations stop once the log holds this many entries.
MaxLogConf == 2
\* At most this many confirmation tokens are issued.
MaxConfTokens == 1
\* the audit log never grows beyond MaxLogGuard entries in a guard call
MaxLogGuard == 8
MaxGuardFailures == 1
\* ttl_seconds of the authority token the guard is bound to at first
GuardTokenTtl == 1
\* A client of the audit log appends until the log holds this many entries.
MaxLogEntries == 3
\* With all components on one log, operations start while the log holds
\* fewer than this many entries.
MaxLogCore == 4
\* A session followed through a halt and a restart: transitions stop once the
\* log holds this many entries.
MaxLogRestart == 8

Times == 0 .. MaxTime

None == << >>
Some(x) == <<x>>

\* ------------------------------------------------------------- state space
SessionState ==
  { "S0_INACTIVE", "S1_SESSION_REQUESTED", "S2_CONSENT_GRANTED", "S3_EXECUTING",
    "S4_ACC_CHECKPOINT", "S5_PAUSED", "S6_HALTED", "S7_COMPLETED" }

LEGAL_TRANSITIONS ==
  [ S0_INACTIVE          |-> { "S1_SESSION_REQUESTED" },
    S1_SESSION_REQUESTED |-> { "S0_INACTIVE", "S2_CONSENT_GRANTED" },
    S2_CONSENT_GRANTED   |-> { "S0_INACTIVE", "S3_EXECUTING", "S6_HALTED" },
    S3_EXECUTING         |-> { "S4_ACC_CHECKPOINT", "S6_HALTED", "S7_COMPLETED" },
    S4_ACC_CHECKPOINT    |-> { "S3_EXECUTING", "S5_PAUSED", "S6_HALTED" },
    S5_PAUSED            |-> { "S4_ACC_CHECKPOINT", "S6_HALTED", "S0_INACTIVE" },
    S6_HALTED            |-> { "S0_INACTIVE" },
    S7_COMPLETED         |-> { "S0_INACTIVE" } ]

\* The edges of the table printed in the specification's data model
\* (the same eight rows), kept apart from the code's table so that the two
\* can be compared.
TableEdges ==
  { <<"S0_INACTIVE", "S1_SESSION_REQUESTED">>,
    <<"S1_SESSION_REQUESTED", "S0_INACTIVE">>, <<"S1_SESSION_REQUESTED", "S2_CONSENT_GRANTED">>,
    <<"S2_CONSENT_GRANTED", "S0_INACTIVE">>, <<"S2_CONSENT_GRANTED", "S3_EXECUTING">>,
    <<"S2_CONSENT_GRANTED", "S6_HALTED">>,
    <<"S3_EXECUTING", "S4_ACC_CHECKPOINT">>, <<"S3_EXECUTING", "S6_HALTED">>,
    <<"S3_EXECUTING", "S7_COMPLETED">>,
    <<"S4_ACC_CHECKPOINT", "S3_EXECUTING">>, <<"S4_ACC_CHECKPOINT", "S5_PAUSED">>,
    <<"S4_ACC_CHECKPOINT", "S6_HALTED">>,
    <<"S5_PAUSED", "S4_ACC_CHECKPOINT">>, <<"S5_PAUSED", "S6_HALTED">>,
    <<"S5_PAUSED", "S0_INACTIVE">>,
    <<"S6_HALTED", "S0_INACTIVE">>,
    <<"S7_COMPLETED", "S0_INACTIVE">> }

\* Inputs of transition(): the caller's reason text and authority_valid.
TransitionArgs ==
  { <<"r1", None>>, <<"r2", Some(TRUE)>> }

\* Inputs of the authority manager.
SessionIds == { "sA", "sB" }
TtlValues == { 0, 1 }
Scopes == { "mix_track" }

\* uuid.uuid4(): the n-th token issued gets the n-th identifier of this list
\* (fresh, never reused).  An identifier is <<first 8 characters, the rest>>;
\* two identifiers may share their first 8 characters.
Uuids == << <<"a1", "x">>, <<"a1", "y">>, <<"b2", "x">>, <<"c3", "x">> >>
UuidSet == { Uuids[i] : i \in 1 .. Len(Uuids) }
\* token_id[:8]
Prefix8(token_id) == token_id[1]

VARIABLES
  current_state,    \* SessionStateMachine._current_state
  entries,          \* AuditLog._entries
  clock,            \* the wall clock read by datetime.utcnow()
  tokens,           \* AuthorityManager._tokens: token_id -> AuthorityToken
  session_tokens,   \* AuthorityManager._session_tokens: session_id -> [token_id]
  last,             \* the last operation called: its arguments and outcome
  conf_tokens,      \* ConfirmationManager._tokens: token_id -> ConfirmationToken
  acc_tokens,       \* ConfirmationManager._acc_tokens: acc_event_id -> [token_id]
  revoke_requested, \* ids of known tokens that revoke_token(id, ...) was called on
  session_revoked,  \* ids of the tokens that were issued under s when
                    \* revoke_session_tokens(s, ...) was called
  conf_obs,         \* what was observed of the validate_confirmation calls so far
  current_token_id, \* ExecutionGuard.current_token_id
  last_user_action_time, \* SilenceTracker._last_user_action_time
  created_at,       \* TTLEnforcer._created_at
  guard_prev,       \* what the latest can_execute_step call of the guard returned
  expired_seen,     \* the earliest time is_expired() was asked about and answered true
  frames            \* the transition() calls in progress, one frame per thread

vars == << current_state, entries, clock, tokens, session_tokens, conf_tokens,
           acc_tokens, last, revoke_requested, session_revoked, conf_obs,
           current_token_id, last_user_action_time, created_at, guard_prev,
           expired_seen, frames >>

\* The threads that call transition() on one session without a lock.
Threads == { "t1", "t2" }

\* The frame of a thread that is not inside transition(): pc is the statement
\* the thread is at, to_state / reason / authority_valid the arguments,
\* from_state the local variable, checked the state the legality check read.
IdleFrame ==
  [ pc |-> "idle", to_state |-> << >>, reason |-> << >>, authority_valid |-> << >>,
    from_state |-> << >>, checked |-> << >> ]

smVars == << current_state >>
authVars == << tokens, session_tokens >>
confVars == << conf_tokens, acc_tokens >>
ghostVars == << revoke_requested, session_revoked >>
\* (what the actions of the state machine and the managers leave alone: the
\* guard, the timers, and the frames of calls running statement by statement)
guardVars == << current_token_id, last_user_action_time, created_at, guard_prev,
               expired_seen, frames >>

\* --------------------------------------------------------------- audit log
AuditLogEntry(timestamp, event_type, from_state, to_state, reason, authority_valid, extra) ==
  [ timestamp |-> timestamp, event_type |-> event_type, from_state |-> from_state,
    to_state |-> to_state, reason |-> reason, authority_valid |-> authority_valid,
    extra |-> extra ]

\* AuditLog.log
Log(log, entry) == Append(log, entry)

\* What `last` records of a call.
Call(op, arg, ret, raised) ==
  [ op |-> op, arg |-> arg, ret |-> ret, raised |-> raised,
    pre_state |-> current_state, pre_len |-> Len(entries) ]

GetEntriesMutantNoCopy(log) == [ list |-> log, is_log |-> TRUE ]

\* AuditLog.get_entries: list(self._entries), a new list of the same entries;
\* is_log tells whether the returned list is the log's own list object.
GetEntries(log) == [ list |-> log, is_log |-> FALSE ]

HasExecutionAfterMutantAnyType(log, timestamp) ==
  \E i \in 1 .. Len(log) : log[i].timestamp > timestamp

\* AuditLog.has_execution_after
HasExecutionAfter(log, timestamp) ==
  LET execution_events == { "EXECUTION_STEP", "STATE_MUTATION" }
      executions == SelectSeq(log, LAMBDA e : e.event_type \in execution_events)
  IN
  \E i \in 1 .. Len(executions) : executions[i].timestamp > timestamp

\* Event types of the entries a client logs: the two execution types and
\* types other components write.
LoggedEventTypes ==
  { "EXECUTION_STEP", "STATE_MUTATION", "STATE_TRANSITION", "AUTHORITY_CHECK",
    "EXECUTION_GUARD_FAILED", "EXECUTION_STEP_GUARDED" }

\* The entries a client of the log passes to log().
ClientEntries ==
  { AuditLogEntry(timestamp, event_type, None, None, "logged by client", None, None) :
      timestamp \in Times, event_type \in LoggedEventTypes }

\* What the caller of get_entries does to the list it was given.
ListEdits == { "append", "clear", "reverse" }

\* list.append(entry), list.clear(), list.reverse() on a list
ModifyList(list, edit) ==
  CASE edit = "append" ->
         Append(list, AuditLogEntry(0, "EXECUTION_STEP", None, None,
                                    "added by caller", None, None))
    [] edit = "clear" -> << >>
    [] edit = "reverse" -> [ i \in 1 .. Len(list) |-> list[Len(list) + 1 - i] ]

\* AuditLog.log called by a client of the log
AppendEntry(entry) ==
  /\ Len(entries) < MaxLogEntries
  /\ entries' = Log(entries, entry)
  /\ last' = Call("log", <<entry>>, None, FALSE)
  /\ UNCHANGED << smVars, clock, authVars, confVars, ghostVars, conf_obs, guardVars >>

\* AuditLog.get_entries, and the caller modifying the list it returned: the
\* log's list changes only if it is the very list the caller holds.
GetEntriesAndModify(edit) ==
  LET returned == GetEntries(entries)
      modified == ModifyList(returned.list, edit)
  IN
  /\ entries' = IF returned.is_log THEN modified ELSE entries
  /\ last' = Call("get_entries", <<edit>>, Some(modified), FALSE)
  /\ UNCHANGED << smVars, clock, authVars, confVars, ghostVars, conf_obs, guardVars >>

\* ----------------------------------------------------------- state machine
IsLegalMutantAllowAll(from_state, to_state) == TRUE

IsLegalMutantNoHalt(from_state, to_state) ==
  to_state \in (LEGAL_TRANSITIONS[from_state] \ { "S6_HALTED" })

IsLegalMutantResumeFromPause(from_state, to_state) ==
  \/ to_state \in LEGAL_TRANSITIONS[from_state]
  \/ from_state = "S5_PAUSED" /\ to_state = "S3_EXECUTING"

IsLegalMutantHaltResumes(from_state, to_state) ==
  \/ to_state \in LEGAL_TRANSITIONS[from_state]
  \/ from_state = "S6_HALTED" /\ to_state = "S2_CONSENT_GRANTED"

\* to_state in LEGAL_TRANSITIONS.get(self._current_state, set())
IsLegal(from_state, to_state) ==
  to_state \in LEGAL_TRANSITIONS[from_state]

TransitionEntryMutantSwapped(from_state, to_state, reason, authority_valid) ==
  AuditLogEntry(clock, "STATE_TRANSITION", Some(to_state), Some(from_state),
                reason, authority_valid, None)

\* the entry transition() builds
TransitionEntry(from_state, to_state, reason, authority_valid) ==
  AuditLogEntry(clock, "STATE_TRANSITION", Some(from_state), Some(to_state),
                reason, authority_valid, None)

\* SessionStateMachine.transition, explored while the log is shorter than
\* max_log
TransitionWithin(max_log, to_state, reason, authority_valid) ==
  \/ /\ ~IsLegal(current_state, to_state)
     \* raise IllegalTransitionError (of a rejected call only the target is recorded)
     /\ last' = Call("transition", <<to_state>>, None, TRUE)
     /\ UNCHANGED << current_state, entries, clock, authVars, confVars, ghostVars, conf_obs, guardVars >>
  \/ /\ IsLegal(current_state, to_state)
     /\ Len(entries) < max_log
     /\ entries' = Log(entries, TransitionEntry(current_state, to_state, reason,
                                                authority_valid))
     /\ current_state' = to_state
     /\ last' = Call("transition", <<to_state, reason, authority_valid>>, None, FALSE)
     /\ UNCHANGED << clock, authVars, confVars, ghostVars, conf_obs, guardVars >>

TransitionMutantAssignFirst(to_state, reason, authority_valid) ==
  \/ /\ ~IsLegal(current_state, to_state)
     /\ last' = Call("transition", <<to_state>>, None, TRUE)
     /\ UNCHANGED << current_state, entries, clock, authVars, confVars, ghostVars, conf_obs, guardVars >>
  \/ /\ IsLegal(current_state, to_state)
     /\ Len(entries) < MaxLogSM
     /\ current_state' = to_state
     /\ entries' = Log(entries, TransitionEntry(to_state, to_state, reason,
                                                authority_valid))
     /\ last' = Call("transition", <<to_state, reason, authority_valid>>, None, FALSE)
     /\ UNCHANGED << clock, authVars, confVars, ghostVars, conf_obs, guardVars >>

\* SessionStateMachine.transition
Transition(to_state, reason, authority_valid) ==
  TransitionWithin(MaxLogSM, to_state, reason, authority_valid)

\* Calls of transition() that passed the legality check and have not yet
\* appended their entry.
InFlight == Cardinality({ thread \in Threads : frames[thread].pc \in { "checked", "read" } })

TransitionCheckMutantNoCheck(thread, to_state, reason, authority_valid) ==
  /\ frames[thread].pc \in { "idle", "done" }
  /\ Len(entries) + InFlight < MaxLogSM
  /\ frames' = [ frames EXCEPT ![thread] =
                   [ pc |-> "checked", to_state |-> to_state, reason |-> reason,
                     authority_valid |-> authority_valid, from_state |-> << >>,
                     checked |-> current_state ] ]
  /\ UNCHANGED << current_state, entries, last, clock, authVars, confVars, ghostVars,
                  conf_obs, current_token_id, last_user_action_time, created_at,
                  guard_prev, expired_seen >>

\* transition(), first statement, run by a thread: the legality check against
\* the current state; raises, or goes on to the next statement
TransitionCheck(thread, to_state, reason, authority_valid) ==
  /\ frames[thread].pc \in { "idle", "done" }
  /\ \/ /\ ~IsLegal(current_state, to_state)
        /\ last' = Call("transition", <<to_state>>, None, TRUE)
        /\ frames' = [ frames EXCEPT ![thread] = IdleFrame ]
     \/ /\ IsLegal(current_state, to_state)
        /\ Len(entries) + InFlight < MaxLogSM
        /\ frames' = [ frames EXCEPT ![thread] =
                         [ pc |-> "checked", to_state |-> to_state, reason |-> reason,
                           authority_valid |-> authority_valid, from_state |-> << >>,
                           checked |-> current_state ] ]
        /\ UNCHANGED last
  /\ UNCHANGED << current_state, entries, clock, authVars, confVars, ghostVars,
                  conf_obs, current_token_id, last_user_action_time, created_at,
                  guard_prev, expired_seen >>

\* transition(): from_state = self._current_state
TransitionReadFrom(thread) ==
  /\ frames[thread].pc = "checked"
  /\ frames' = [ frames EXCEPT ![thread].pc = "read",
                               ![thread].from_state = current_state ]
  /\ UNCHANGED << current_state, entries, last, clock, authVars, confVars, ghostVars,
                  conf_obs, current_token_id, last_user_action_time, created_at,
                  guard_prev, expired_seen >>

\* transition(): entry = AuditLogEntry(...); self._audit_log.log(entry)
TransitionLog(thread) ==
  LET frame == frames[thread] IN
  /\ frame.pc = "read"
  /\ entries' = Log(entries, TransitionEntry(frame.from_state, frame.to_state,
                                             frame.reason, frame.authority_valid))
  /\ frames' = [ frames EXCEPT ![thread].pc = "logged" ]
  /\ UNCHANGED << current_state, last, clock, authVars, confVars, ghostVars,
                  conf_obs, current_token_id, last_user_action_time, created_at,
                  guard_prev, expired_seen >>

\* transition(): self._current_state = to_state, and the call returns
TransitionAssign(thread) ==
  LET frame == frames[thread] IN
  /\ frame.pc = "logged"
  /\ current_state' = frame.to_state
  /\ frames' = [ frames EXCEPT ![thread].pc = "done" ]
  /\ last' = Call("transition", <<frame.to_state, frame.reason, frame.authority_valid>>,
                  None, FALSE)
  /\ UNCHANGED << entries, clock, authVars, confVars, ghostVars,
                  conf_obs, current_token_id, last_user_action_time, created_at,
                  guard_prev, expired_seen >>

CheckCanExecuteMutantDuringCheckpoint ==
  LET authority_valid == (current_state \in { "S3_EXECUTING", "S4_ACC_CHECKPOINT" }) IN
  /\ Len(entries) < MaxLogSM
  /\ entries' = Log(entries,
                    AuditLogEntry(clock, "AUTHORITY_CHECK", Some(current_state), None,
                                  <<"can_execute check: ", authority_valid>>,
                                  Some(authority_valid), None))
  /\ last' = Call("check_can_execute", << >>, Some(authority_valid), FALSE)
  /\ UNCHANGED << current_state, clock, authVars, confVars, ghostVars, conf_obs, guardVars >>

\* SessionStateMachine.check_can_execute
CheckCanExecute ==
  LET authority_valid == (current_state = "S3_EXECUTING") IN
  /\ Len(entries) < MaxLogSM
  /\ entries' = Log(entries,
                    AuditLogEntry(clock, "AUTHORITY_CHECK", Some(current_state), None,
                                  <<"can_execute check: ", authority_valid>>,
                                  Some(authority_valid), None))
  /\ last' = Call("check_can_execute", << >>, Some(authority_valid), FALSE)
  /\ UNCHANGED << current_state, clock, authVars, confVars, ghostVars, conf_obs, guardVars >>

GuardExecutionStepMutantLogsStep(step_id) ==
  LET authority_valid == (current_state = "S3_EXECUTING")
      checked == Log(entries,
                     AuditLogEntry(clock, "AUTHORITY_CHECK", Some(current_state), None,
                                   <<"can_execute check: ", authority_valid>>,
                                   Some(authority_valid), None))
  IN
  /\ Len(entries) + (IF authority_valid THEN 2 ELSE 1) <= MaxLogSM
  /\ entries' = IF authority_valid
                  THEN Log(checked,
                           AuditLogEntry(clock, "EXECUTION_STEP", Some(current_state),
                                         None, <<"Step ", step_id, " passed guard">>,
                                         Some(TRUE), None))
                  ELSE checked
  /\ last' = Call("guard_execution_step", <<step_id>>, Some(authority_valid), FALSE)
  /\ UNCHANGED << current_state, clock, authVars, confVars, ghostVars, conf_obs, guardVars >>

\* ExecutionGuard.guard_execution_step (the guard class of the state machine
\* module): check_can_proceed() calls check_can_execute(), which logs; a
\* passing step is logged as EXECUTION_STEP_GUARDED
GuardExecutionStep(step_id) ==
  LET authority_valid == (current_state = "S3_EXECUTING")
      checked == Log(entries,
                     AuditLogEntry(clock, "AUTHORITY_CHECK", Some(current_state), None,
                                   <<"can_execute check: ", authority_valid>>,
                                   Some(authority_valid), None))
  IN
  /\ Len(entries) + (IF authority_valid THEN 2 ELSE 1) <= MaxLogSM
  /\ entries' = IF authority_valid
                  THEN Log(checked,
                           AuditLogEntry(clock, "EXECUTION_STEP_GUARDED", Some(current_state),
                                         None, <<"Step ", step_id, " passed guard">>,
                                         Some(TRUE), None))
                  ELSE checked
  /\ last' = Call("guard_execution_step", <<step_id>>, Some(authority_valid), FALSE)
  /\ UNCHANGED << current_state, clock, authVars, confVars, ghostVars, conf_obs, guardVars >>

\* ------------------------------------------------------- authority tokens
AuthorityToken(token_id, session_id, issued_at, ttl_seconds, scope) ==
  [ token_id |-> token_id, session_id |-> session_id, issued_at |-> issued_at,
    ttl_seconds |-> ttl_seconds, scope |-> scope, is_revoked |-> FALSE,
    revoked_at |-> None ]

IsExpiredMutantStrict(token, current_time) ==
  current_time > token.issued_at + token.ttl_seconds

\* AuthorityToken.is_expired
IsExpired(token, current_time) ==
  LET expiry == token.issued_at + token.ttl_seconds IN
  current_time >= expiry

IsValidMutantIgnoreRevoked(token, current_time) ==
  ~IsExpired(token, current_time)

\* AuthorityToken.is_valid
IsValid(token, current_time) ==
  ~token.is_revoked /\ ~IsExpired(token, current_time)

RevokeMutantToggle(token, revoke_time) ==
  [ token EXCEPT !.is_revoked = ~token.is_revoked, !.revoked_at = Some(revoke_time) ]

\* AuthorityToken.revoke
Revoke(token, revoke_time) ==
  [ token EXCEPT !.is_revoked = TRUE, !.revoked_at = Some(revoke_time) ]

\* The next identifier uuid.uuid4() returns.
FreshUuid == Uuids[Cardinality(DOMAIN tokens) + 1]

\* Token ids a caller passes: every known id, and one unknown id (the one the
\* next issue_token would create).
TokenIdArgs == DOMAIN tokens \cup { FreshUuid }

\* The entry issue_token() appends.
IssuedEntry(token_id, now, ttl_seconds) ==
  AuditLogEntry(now, "AUTHORITY_ISSUED", None, None,
                <<"Token ", Prefix8(token_id), "... issued with TTL ", ttl_seconds, "s">>,
                Some(TRUE), None)

\* AuthorityManager.issue_token
IssueToken(session_id, ttl_seconds, scope) ==
  LET token_id == FreshUuid
      now == clock
      token == AuthorityToken(token_id, session_id, now, ttl_seconds, scope)
  IN
  /\ Cardinality(DOMAIN tokens) < MaxTokens
  /\ Len(entries) < MaxLogAuth
  /\ tokens' = (token_id :> token) @@ tokens
  /\ session_tokens' =
       IF session_id \notin DOMAIN session_tokens
         THEN (session_id :> << token_id >>) @@ session_tokens
         ELSE [ session_tokens EXCEPT ![session_id] = Append(@, token_id) ]
  /\ entries' = Log(entries, IssuedEntry(token_id, now, ttl_seconds))
  /\ last' = Call("issue_token", <<session_id, ttl_seconds, scope>>, Some(token_id), FALSE)
  /\ UNCHANGED << smVars, clock, confVars, ghostVars, conf_obs, guardVars >>

\* The entry validate_token() appends.
AuthorityCheckEntry(token_id, current_time, is_valid) ==
  AuditLogEntry(current_time, "AUTHORITY_CHECK", None, None,
                <<"Token ", Prefix8(token_id), "... validation: ", is_valid>>,
                Some(is_valid), None)

ValidateTokenMutantLogsUnknown(token_id, current_time) ==
  \/ /\ token_id \notin DOMAIN tokens
     /\ Len(entries) < MaxLogAuth
     /\ entries' = Log(entries, AuthorityCheckEntry(token_id, current_time, FALSE))
     /\ last' = Call("validate_token", <<token_id>>, Some(FALSE), FALSE)
     /\ UNCHANGED << smVars, clock, authVars, confVars, ghostVars, conf_obs, guardVars >>
  \/ /\ token_id \in DOMAIN tokens
     /\ Len(entries) < MaxLogAuth
     /\ LET is_valid == IsValid(tokens[token_id], current_time) IN
        /\ entries' = Log(entries, AuthorityCheckEntry(token_id, current_time, is_valid))
        /\ last' = Call("validate_token", <<token_id, current_time>>, Some(is_valid), FALSE)
     /\ UNCHANGED << smVars, clock, authVars, confVars, ghostVars, conf_obs, guardVars >>

\* AuthorityManager.validate_token
ValidateToken(token_id, current_time) ==
  \/ /\ token_id \notin DOMAIN tokens
     \* (of a call on an unknown id only the id is recorded)
     /\ last' = Call("validate_token", <<token_id>>, Some(FALSE), FALSE)
     /\ UNCHANGED << smVars, entries, clock, authVars, confVars, ghostVars, conf_obs, guardVars >>
  \/ /\ token_id \in DOMAIN tokens
     /\ Len(entries) < MaxLogAuth
     /\ LET is_valid == IsValid(tokens[token_id], current_time) IN
        /\ entries' = Log(entries, AuthorityCheckEntry(token_id, current_time, is_valid))
        /\ last' = Call("validate_token", <<token_id, current_time>>, Some(is_valid), FALSE)
     /\ UNCHANGED << smVars, clock, authVars, confVars, ghostVars, conf_obs, guardVars >>

\* The entry revoke_token() appends.
RevokedEntry(token_id, revoke_time) ==
  AuditLogEntry(revoke_time, "AUTHORITY_REVOKED", None, None,
                <<"Token ", Prefix8(token_id), "... revoked">>, Some(FALSE), None)

\* revoke_token()'s effect on _tokens
RevokeTokenTokens(toks, token_id, revoke_time) ==
  IF token_id \notin DOMAIN toks
    THEN toks
    ELSE [ toks EXCEPT ![token_id] = Revoke(@, revoke_time) ]

\* revoke_token()'s effect on the audit log
RevokeTokenLog(toks, log, token_id, revoke_time) ==
  IF token_id \notin DOMAIN toks
    THEN log
    ELSE Log(log, RevokedEntry(token_id, revoke_time))

\* AuthorityManager.revoke_token, explored while the log is shorter than max_log
RevokeTokenWithin(max_log, token_id, revoke_time) ==
  \/ /\ token_id \notin DOMAIN tokens
     /\ last' = Call("revoke_token", <<token_id>>, None, FALSE)
     /\ UNCHANGED << smVars, entries, clock, authVars, confVars, ghostVars, conf_obs, guardVars >>
  \/ /\ token_id \in DOMAIN tokens
     /\ Len(entries) < max_log
     /\ tokens' = RevokeTokenTokens(tokens, token_id, revoke_time)
     /\ entries' = RevokeTokenLog(tokens, entries, token_id, revoke_time)
     /\ revoke_requested' = revoke_requested \cup { token_id }
     /\ last' = Call("revoke_token", <<token_id, revoke_time>>, None, FALSE)
     /\ UNCHANGED << smVars, clock, session_tokens, confVars, session_revoked, conf_obs, guardVars >>

\* AuthorityManager.revoke_token
RevokeToken(token_id, revoke_time) ==
  RevokeTokenWithin(MaxLogAuth, token_id, revoke_time)

RECURSIVE RevokeAllTokens(_, _, _)
\* the loop of revoke_session_tokens(), on _tokens
RevokeAllTokens(toks, token_ids, revoke_time) ==
  IF token_ids = << >>
    THEN toks
    ELSE RevokeAllTokens(RevokeTokenTokens(toks, Head(token_ids), revoke_time),
                         Tail(token_ids), revoke_time)

RECURSIVE RevokeAllLog(_, _, _, _)
\* the loop of revoke_session_tokens(), on the audit log
RevokeAllLog(toks, log, token_ids, revoke_time) ==
  IF token_ids = << >>
    THEN log
    ELSE RevokeAllLog(RevokeTokenTokens(toks, Head(token_ids), revoke_time),
                      RevokeTokenLog(toks, log, Head(token_ids), revoke_time),
                      Tail(token_ids), revoke_time)

SessionTokenIdsMutantSkipLast(session_id) ==
  SubSeq(session_tokens[session_id], 1, Len(session_tokens[session_id]) - 1)

SessionTokenIdsMutantEverySession(session_id) ==
  LET indexed(s) == IF s \in DOMAIN session_tokens THEN session_tokens[s] ELSE << >> IN
  indexed("sA") \o indexed("sB")

\* token_ids = self._session_tokens[session_id]
SessionTokenIds(session_id) == session_tokens[session_id]

\* AuthorityManager.revoke_session_tokens
RevokeSessionTokens(session_id, revoke_time) ==
  \/ /\ session_id \notin DOMAIN session_tokens
     /\ last' = Call("revoke_session_tokens", <<session_id>>, None, FALSE)
     /\ UNCHANGED << smVars, entries, clock, authVars, confVars, ghostVars, conf_obs, guardVars >>
  \/ /\ session_id \in DOMAIN session_tokens
     /\ Len(entries) < MaxLogAuth
     /\ LET token_ids == SessionTokenIds(session_id) IN
        /\ tokens' = RevokeAllTokens(tokens, token_ids, revoke_time)
        /\ entries' = RevokeAllLog(tokens, entries, token_ids, revoke_time)
     /\ session_revoked' = session_revoked \cup
          { t \in DOMAIN tokens : tokens[t].session_id = session_id }
     /\ last' = Call("revoke_session_tokens", <<session_id, revoke_time>>, None, FALSE)
     /\ UNCHANGED << smVars, clock, session_tokens, confVars, revoke_requested, conf_obs, guardVars >>

\* ---------------------------------------------------- confirmation tokens
ConfirmationType ==
  { "TYPE_CODE", "VOICE_PHRASE", "DELIBERATE_GESTURE", "ARTICULATED_UNDERSTANDING" }

\* hashlib.sha256(s.encode()).hexdigest(): a digest, never the text itself;
\* equal digests only for equal texts (collisions are not modelled).
Sha256(text) == << "sha256", text >>

\* Codes generate_type_code() can draw (2 letters, digit, 2 letters, digit).
TypeCodes == { "KQ7PM3", "BN4RX6" }

\* generate_voice_phrase(): phrases
Phrases ==
  { "i want to continue", "yes i understand", "lets keep going", "im still here",
    "i approve of this", "continue the mix", "proceed please", "this looks good" }

\* generate_deliberate_gesture(): gestures
Gestures ==
  { "double_tap_center", "swipe_up_then_down", "pinch_expand", "long_press_3sec",
    "tap_top_left" }

\* generate_articulated_understanding(): questions
Questions ==
  { "Why are you continuing this session? (explain in 3+ words)",
    "What will happen next? (summarize in your own words)",
    "Are you sure you want to proceed? (say yes or no with reason)" }

SemanticSentinel == "REQUIRES_SEMANTIC_VALIDATION"

\* The text of a challenge_payload, as the f-string builds it.
ChallengeText(challenge_payload) ==
  IF Len(challenge_payload) = 3
    THEN challenge_payload[1] \o challenge_payload[2] \o challenge_payload[3]
    ELSE challenge_payload[1] \o challenge_payload[2]

GenerateChallengeMutantHashesPayload(confirmation_type) ==
  CASE confirmation_type = "TYPE_CODE" ->
         { << <<"Type this code to continue: ", code>>,
              Sha256(ChallengeText(<<"Type this code to continue: ", code>>)) >> :
             code \in TypeCodes }
    [] confirmation_type = "VOICE_PHRASE" ->
         { << <<"Say this to continue: \"", phrase, "\"">>,
              Sha256(ChallengeText(<<"Say this to continue: \"", phrase, "\"">>)) >> :
             phrase \in Phrases }
    [] confirmation_type = "DELIBERATE_GESTURE" ->
         { << <<"Gesture: ", gesture>>,
              Sha256(ChallengeText(<<"Gesture: ", gesture>>)) >> : gesture \in Gestures }
    [] confirmation_type = "ARTICULATED_UNDERSTANDING" ->
         { << <<"Answer this: ", question>>, Sha256(SemanticSentinel) >> :
             question \in Questions }

\* ConfirmationManager._generate_challenge: every (challenge_payload,
\* challenge_hash) the generator of the type can return.  A payload is the
\* parts of the f-string: <<prompt, secret>>, with a closing quote after a
\* phrase.
GenerateChallenge(confirmation_type) ==
  CASE confirmation_type = "TYPE_CODE" ->
         { << <<"Type this code to continue: ", code>>, Sha256(code) >> :
             code \in TypeCodes }
    [] confirmation_type = "VOICE_PHRASE" ->
         { << <<"Say this to continue: \"", phrase, "\"">>, Sha256(phrase) >> :
             phrase \in Phrases }
    [] confirmation_type = "DELIBERATE_GESTURE" ->
         { << <<"Gesture: ", gesture>>, Sha256(gesture) >> : gesture \in Gestures }
    [] confirmation_type = "ARTICULATED_UNDERSTANDING" ->
         { << <<"Answer this: ", question>>, Sha256(SemanticSentinel) >> :
             question \in Questions }

ConfirmationToken(token_id, session_id, acc_event_id, confirmation_type, issued_at, ttl_seconds, challenge_payload, challenge_hash) ==
  [ token_id |-> token_id, session_id |-> session_id, acc_event_id |-> acc_event_id,
    confirmation_type |-> confirmation_type, issued_at |-> issued_at,
    ttl_seconds |-> ttl_seconds, challenge_payload |-> challenge_payload,
    challenge_hash |-> challenge_hash, is_used |-> FALSE, used_at |-> None,
    was_valid |-> None ]

ConfIsExpiredMutantStrict(token, current_time) ==
  LET expiry == token.issued_at + token.ttl_seconds IN
  current_time > expiry

\* ConfirmationToken.is_expired
ConfIsExpired(token, current_time) ==
  LET expiry == token.issued_at + token.ttl_seconds IN
  current_time >= expiry

CanValidateMutantReusable(token, current_time) ==
  ~ConfIsExpired(token, current_time)

\* ConfirmationToken.can_validate
CanValidate(token, current_time) ==
  ~token.is_used /\ ~ConfIsExpired(token, current_time)

MarkUsedMutantOnlyOnSuccess(token, validated, validation_time) ==
  [ token EXCEPT !.is_used = validated, !.was_valid = Some(validated),
                 !.used_at = Some(validation_time) ]

\* ConfirmationToken.mark_used
MarkUsed(token, validated, validation_time) ==
  [ token EXCEPT !.is_used = TRUE, !.was_valid = Some(validated),
                 !.used_at = Some(validation_time) ]

\* The next identifier uuid.uuid4() returns in issue_confirmation.
ConfFreshUuid == Uuids[Cardinality(DOMAIN conf_tokens) + 1]

\* Confirmation-token ids a caller passes: every known id and one unknown id.
ConfTokenIdArgs == DOMAIN conf_tokens \cup { ConfFreshUuid }

\* acc_event_id arguments; an id is <<first 8 characters, the rest>>.
AccEventIds == { <<"acc-even", "t-001">>, <<"acc-even", "t-002">> }

\* Responses a user submits to a token: the secret shown in its challenge,
\* the whole challenge text, the sentinel text, or something else.
UserResponses(token_id) ==
  { "wrong response", SemanticSentinel } \cup
  ( IF token_id \in DOMAIN conf_tokens
      THEN { conf_tokens[token_id].challenge_payload[2],
             ChallengeText(conf_tokens[token_id].challenge_payload) }
      ELSE { } )

\* ConfirmationManager.issue_confirmation
IssueConfirmation(session_id, acc_event_id, confirmation_type, ttl_seconds) ==
  LET token_id == ConfFreshUuid
      now == clock
  IN
  /\ Cardinality(DOMAIN conf_tokens) < MaxConfTokens
  /\ Len(entries) < MaxLogConf
  /\ \E challenge \in GenerateChallenge(confirmation_type) :
       /\ conf_tokens' =
            (token_id :> ConfirmationToken(token_id, session_id, acc_event_id,
                                           confirmation_type, now, ttl_seconds,
                                           challenge[1], challenge[2])) @@ conf_tokens
  /\ acc_tokens' =
       IF acc_event_id \notin DOMAIN acc_tokens
         THEN (acc_event_id :> << token_id >>) @@ acc_tokens
         ELSE [ acc_tokens EXCEPT ![acc_event_id] = Append(@, token_id) ]
  /\ entries' = Log(entries,
                    AuditLogEntry(now, "CONFIRMATION_TOKEN_ISSUED", None, None,
                                  <<"ACC token ", Prefix8(token_id), "... issued for event ",
                                    Prefix8(acc_event_id), "...">>,
                                  None,
                                  Some([ token_id |-> Prefix8(token_id),
                                         acc_event_id |-> Prefix8(acc_event_id),
                                         confirmation_type |-> confirmation_type ])))
  /\ last' = Call("issue_confirmation",
                  <<session_id, acc_event_id, confirmation_type, ttl_seconds>>,
                  Some(token_id), FALSE)
  /\ UNCHANGED << smVars, clock, authVars, ghostVars, conf_obs, guardVars >>

\* History kept of the validate_confirmation calls on known tokens: per token
\* the number of calls and of calls that returned true (both counted up to
\* two), the tokens that received a wrong response while unused and
\* unexpired, and whether the token of the last call was used before it;
\* and the tokens revoke_token was called on.
CountOf(f, id) == IF id \in DOMAIN f THEN f[id] ELSE 0
UpToTwo(n) == IF n >= 2 THEN 2 ELSE n
Observed(token_id, user_response, current_time, ret) ==
  LET token == conf_tokens[token_id] IN
  [ calls |-> (token_id :> UpToTwo(CountOf(conf_obs.calls, token_id) + 1))
                @@ conf_obs.calls,
    trues |-> (token_id :> UpToTwo(CountOf(conf_obs.trues, token_id)
                                     + (IF ret THEN 1 ELSE 0)))
                @@ conf_obs.trues,
    burned |-> IF /\ ~token.is_used
                  /\ current_time < token.issued_at + token.ttl_seconds
                  /\ Sha256(user_response) # token.challenge_hash
                 THEN conf_obs.burned \cup { token_id }
                 ELSE conf_obs.burned,
    pre_used |-> token.is_used,
    revoked |-> conf_obs.revoked ]

\* ConfirmationManager.validate_confirmation
ValidateConfirmation(token_id, user_response, current_time) ==
  \/ /\ token_id \notin DOMAIN conf_tokens
     /\ last' = Call("validate_confirmation", <<token_id>>, Some(FALSE), FALSE)
     /\ UNCHANGED << smVars, entries, clock, authVars, confVars, ghostVars, conf_obs, guardVars >>
  \/ /\ token_id \in DOMAIN conf_tokens
     /\ ~CanValidate(conf_tokens[token_id], current_time)
     \* already used or expired: mark_used(False, current_time), return False
     /\ conf_tokens' = [ conf_tokens EXCEPT ![token_id] = MarkUsed(@, FALSE, current_time) ]
     /\ last' = Call("validate_confirmation", <<token_id, user_response, current_time>>,
                     Some(FALSE), FALSE)
     /\ conf_obs' = Observed(token_id, user_response, current_time, FALSE)
     /\ UNCHANGED << smVars, entries, clock, authVars, acc_tokens, ghostVars, guardVars >>
  \/ /\ token_id \in DOMAIN conf_tokens
     /\ CanValidate(conf_tokens[token_id], current_time)
     /\ Len(entries) < MaxLogConf
     /\ LET token == conf_tokens[token_id]
            response_hash == Sha256(user_response)
            is_valid == (response_hash = token.challenge_hash)
        IN
        /\ conf_tokens' = [ conf_tokens EXCEPT ![token_id] =
                              MarkUsed(@, is_valid, current_time) ]
        /\ entries' = Log(entries,
                          AuditLogEntry(current_time, "CONFIRMATION_VALIDATED", None, None,
                                        <<"Token ", Prefix8(token_id), "... validation: ",
                                          is_valid, token.confirmation_type>>,
                                        Some(is_valid),
                                        Some([ token_id |-> Prefix8(token_id),
                                               confirmation_type |-> token.confirmation_type,
                                               valid |-> is_valid ])))
        /\ last' = Call("validate_confirmation",
                        <<token_id, user_response, current_time>>, Some(is_valid), FALSE)
        /\ conf_obs' = Observed(token_id, user_response, current_time, is_valid)
     /\ UNCHANGED << smVars, clock, authVars, acc_tokens, ghostVars, guardVars >>

RevokeConfirmationMutantLogOnly(token_id, revocation_time) ==
  \/ /\ token_id \notin DOMAIN conf_tokens
     /\ last' = Call("revoke_confirmation", <<token_id>>, None, FALSE)
     /\ UNCHANGED << smVars, entries, clock, authVars, confVars, ghostVars, conf_obs, guardVars >>
  \/ /\ token_id \in DOMAIN conf_tokens
     /\ Len(entries) < MaxLogConf
     /\ entries' = Log(entries,
                       AuditLogEntry(revocation_time, "CONFIRMATION_TOKEN_REVOKED", None,
                                     None, <<"Token ", Prefix8(token_id), "... revoked">>,
                                     Some(FALSE), None))
     /\ last' = Call("revoke_confirmation", <<token_id, revocation_time>>, None, FALSE)
     /\ conf_obs' = [ conf_obs EXCEPT !.revoked = @ \cup { token_id } ]
     /\ UNCHANGED << smVars, clock, authVars, confVars, ghostVars, guardVars >>

\* ConfirmationManager.revoke_token
RevokeConfirmation(token_id, revocation_time) ==
  \/ /\ token_id \notin DOMAIN conf_tokens
     /\ last' = Call("revoke_confirmation", <<token_id>>, None, FALSE)
     /\ UNCHANGED << smVars, entries, clock, authVars, confVars, ghostVars, conf_obs, guardVars >>
  \/ /\ token_id \in DOMAIN conf_tokens
     /\ Len(entries) < MaxLogConf
     /\ conf_tokens' = [ conf_tokens EXCEPT ![token_id] =
                           MarkUsed(@, FALSE, revocation_time) ]
     /\ entries' = Log(entries,
                       AuditLogEntry(revocation_time, "CONFIRMATION_TOKEN_REVOKED", None,
                                     None, <<"Token ", Prefix8(token_id), "... revoked">>,
                                     Some(FALSE), None))
     /\ last' = Call("revoke_confirmation", <<token_id, revocation_time>>, None, FALSE)
     /\ conf_obs' = [ conf_obs EXCEPT !.revoked = @ \cup { token_id } ]
     /\ UNCHANGED << smVars, clock, authVars, acc_tokens, ghostVars, guardVars >>

\* ------------------------------------------ silence tracker, TTL enforcer
\* SilenceTracker(timeout_seconds) and TTLEnforcer(ttl_seconds) as constructed
SilenceTimeout == 0
SessionTtl == 1

\* SilenceTracker.record_user_action
RecordUserAction(timestamp) ==
  /\ last_user_action_time' = Some(timestamp)
  /\ last' = Call("record_user_action", <<timestamp>>, None, FALSE)
  /\ UNCHANGED << smVars, entries, clock, authVars, confVars, ghostVars, conf_obs,
                  current_token_id, created_at, guard_prev, expired_seen, frames >>

CheckSilenceMutantAtTimeout(current_time) ==
  IF last_user_action_time = None
    THEN TRUE
    ELSE LET time_since_action == current_time - last_user_action_time[1] IN
         time_since_action >= SilenceTimeout

\* SilenceTracker.check_silence
CheckSilence(current_time) ==
  IF last_user_action_time = None
    THEN TRUE
    ELSE LET time_since_action == current_time - last_user_action_time[1] IN
         time_since_action > SilenceTimeout

\* TTLEnforcer.initialize
Initialize(at) ==
  /\ created_at' = Some(at)
  /\ last' = Call("initialize", <<at>>, None, FALSE)
  /\ UNCHANGED << smVars, entries, clock, authVars, confVars, ghostVars, conf_obs,
                  current_token_id, last_user_action_time, guard_prev, expired_seen, frames >>

\* TTLEnforcer.get_expiry, of an initialised enforcer
GetExpiry == created_at[1] + SessionTtl

TtlIsExpiredMutantGrace(current_time) ==
  IF created_at = None
    THEN FALSE
    ELSE current_time > GetExpiry

\* TTLEnforcer.is_expired
TtlIsExpired(current_time) ==
  IF created_at = None
    THEN FALSE
    ELSE current_time >= GetExpiry

\* TTLEnforcer.get_remaining
GetRemaining(current_time) ==
  IF created_at = None
    THEN 0
    ELSE LET remaining == GetExpiry - current_time IN
         IF remaining > 0 THEN remaining ELSE 0

\* SilenceTracker.get_time_until_silence
GetTimeUntilSilence(current_time) ==
  IF last_user_action_time = None
    THEN 0
    ELSE LET time_since_action == current_time - last_user_action_time[1]
             remaining == SilenceTimeout - time_since_action
         IN IF remaining > 0 THEN remaining ELSE 0

\* The earliest time for which is_expired() has answered true so far.
ExpiredSeen(current_time, expired) ==
  IF expired /\ (expired_seen = None \/ current_time < expired_seen[1])
    THEN Some(current_time)
    ELSE expired_seen

\* A caller asks the silence tracker, the TTL enforcer or the audit log: op
\* is the method called, ret what it returns.
Ask(op, current_time, ret) ==
  /\ last' = Call(op, <<current_time>>, Some(ret), FALSE)
  /\ expired_seen' = IF op = "is_expired"
                       THEN ExpiredSeen(current_time, ret)
                       ELSE expired_seen
  /\ UNCHANGED << smVars, entries, clock, authVars, confVars, ghostVars, conf_obs,
                  current_token_id, last_user_action_time, created_at, guard_prev,
                  frames >>

\* -------------------------------------------------------- execution guard
\* threshold = 0.5, in hundredths
ConfidenceThreshold == 50

\* bool(x) of an Optional[str]: None and the empty string are false
Truthy(x) == x # None /\ x # Some("")

\* ExecutionGuard.check_in_executing_state
CheckInExecutingState == current_state = "S3_EXECUTING"

CheckAuthorityValidMutantVacuous(current_time) ==
  IF current_token_id = None
    THEN TRUE
    ELSE /\ current_token_id[1] \in DOMAIN tokens
         /\ IsValid(tokens[current_token_id[1]], current_time)

\* ExecutionGuard.check_authority_valid: what it returns
CheckAuthorityValid(current_time) ==
  IF current_token_id = None
    THEN FALSE
    ELSE /\ current_token_id[1] \in DOMAIN tokens
         /\ IsValid(tokens[current_token_id[1]], current_time)

\* ExecutionGuard.check_authority_valid: what validate_token() appends for it
CheckAuthorityLog(log, current_time) ==
  IF current_token_id # None /\ current_token_id[1] \in DOMAIN tokens
    THEN Log(log, AuthorityCheckEntry(current_token_id[1], current_time,
                                      IsValid(tokens[current_token_id[1]], current_time)))
    ELSE log

\* ExecutionGuard.check_ttl_valid
CheckTtlValid(ttl_enforcer, current_time) ==
  IF ttl_enforcer = None
    THEN TRUE
    ELSE LET expired == TtlIsExpired(current_time) IN ~expired

\* ExecutionGuard.check_silence_not_exceeded
CheckSilenceNotExceeded(silence_tracker, current_time) ==
  IF silence_tracker = None
    THEN TRUE
    ELSE LET is_silent == CheckSilence(current_time) IN ~is_silent

\* ExecutionGuard.check_boundary_not_crossed
CheckBoundaryNotCrossed(current_file, current_tool, current_modality, session_file, session_tool, session_modality) ==
  IF ~(Truthy(current_file) \/ Truthy(current_tool) \/ Truthy(current_modality))
    THEN TRUE
    ELSE LET boundary_crossed ==
               \/ Truthy(current_file) /\ Truthy(session_file)
                    /\ current_file # session_file
               \/ Truthy(current_tool) /\ Truthy(session_tool)
                    /\ current_tool # session_tool
               \/ Truthy(current_modality) /\ Truthy(session_modality)
                    /\ current_modality # session_modality
         IN ~boundary_crossed

\* ExecutionGuard.check_capability_in_registry
CheckCapabilityInRegistry(capability_id, capability_registry) ==
  IF capability_registry = None
    THEN TRUE
    ELSE capability_id \in capability_registry[1]

CheckConfidenceNotDegradedMutantStrict(confidence_score) ==
  LET degraded == confidence_score <= ConfidenceThreshold IN ~degraded

\* ExecutionGuard.check_confidence_not_degraded
CheckConfidenceNotDegraded(confidence_score) ==
  LET degraded == confidence_score < ConfidenceThreshold IN ~degraded

\* can_execute_step: the list `conditions`, for the keyword arguments a
Conditions(a, current_time) ==
  << <<"in_executing_state", CheckInExecutingState>>,
     <<"authority_valid", CheckAuthorityValid(current_time)>>,
     <<"ttl_valid", CheckTtlValid(a.ttl_enforcer, current_time)>>,
     <<"silence_not_exceeded", CheckSilenceNotExceeded(a.silence_tracker, current_time)>>,
     <<"boundary_not_crossed",
       CheckBoundaryNotCrossed(a.current_file, a.current_tool, a.current_modality,
                               a.session_file, a.session_tool, a.session_modality)>>,
     <<"capability_in_registry",
       CheckCapabilityInRegistry(a.capability_id, a.capability_registry)>>,
     <<"confidence_not_degraded", CheckConfidenceNotDegraded(a.confidence_score)>> >>

FailedConditionsMutantFirstOnly(conditions) ==
  LET failed == SelectSeq(conditions, LAMBDA c : ~c[2]) IN
  IF failed = << >> THEN << >> ELSE << failed[1][1] >>

\* failed = [name for name, passed in conditions if not passed]
FailedConditions(conditions) ==
  LET failed == SelectSeq(conditions, LAMBDA c : ~c[2]) IN
  [ i \in 1 .. Len(failed) |-> failed[i][1] ]

\* The entry can_execute_step() appends when a condition fails.
GuardFailedEntry(current_time, failed) ==
  AuditLogEntry(current_time, "EXECUTION_GUARD_FAILED", Some(current_state), None,
                <<"Conditions failed: ", failed>>, Some(FALSE),
                Some([ failed_conditions |-> failed ]))

CanExecuteReturnMutantCached(a, current_time) ==
  LET conditions == Conditions(a, current_time) IN
  \/ guard_prev = Some(TRUE)
  \/ \A i \in 1 .. Len(conditions) : conditions[i][2]

\* can_execute_step: all_pass
CanExecuteReturn(a, current_time) ==
  LET conditions == Conditions(a, current_time) IN
  \A i \in 1 .. Len(conditions) : conditions[i][2]

\* can_execute_step: the audit log it leaves
CanExecuteLog(log, a, current_time) ==
  LET checked == CheckAuthorityLog(log, current_time) IN
  IF ~CanExecuteReturn(a, current_time)
    THEN Log(checked, GuardFailedEntry(current_time,
                                       FailedConditions(Conditions(a, current_time))))
    ELSE checked

\* The guard calls explored: the log stays within MaxLogGuard entries, of
\* which at most MaxGuardFailures are EXECUTION_GUARD_FAILED entries.
GuardFailures(log) ==
  Len(SelectSeq(log, LAMBDA e : e.event_type = "EXECUTION_GUARD_FAILED"))
Explored(log) ==
  /\ Len(log) <= MaxLogGuard
  /\ GuardFailures(log) <= MaxGuardFailures

CanExecuteStepMutantHalts(a, current_time) ==
  LET all_pass == CanExecuteReturn(a, current_time) IN
  /\ Explored(CanExecuteLog(entries, a, current_time))
  /\ entries' = CanExecuteLog(entries, a, current_time)
  /\ current_state' = IF all_pass THEN current_state ELSE "S6_HALTED"
  /\ last' = Call("can_execute_step", <<a, current_time>>, Some(all_pass), FALSE)
  /\ guard_prev' = Some(all_pass)
  /\ UNCHANGED << clock, authVars, confVars, ghostVars, conf_obs,
                  current_token_id, last_user_action_time, created_at, expired_seen, frames >>

\* ExecutionGuard.can_execute_step
CanExecuteStep(a, current_time) ==
  LET all_pass == CanExecuteReturn(a, current_time) IN
  /\ Explored(CanExecuteLog(entries, a, current_time))
  /\ entries' = CanExecuteLog(entries, a, current_time)
  /\ last' = Call("can_execute_step", <<a, current_time>>, Some(all_pass), FALSE)
  /\ guard_prev' = Some(all_pass)
  /\ UNCHANGED << smVars, clock, authVars, confVars, ghostVars, conf_obs,
                  current_token_id, last_user_action_time, created_at, expired_seen, frames >>

EnforceHaltOnFailureMutantRaiseFirst(a, current_time) ==
  LET can_execute == CanExecuteReturn(a, current_time) IN
  /\ Explored(CanExecuteLog(entries, a, current_time))
  /\ entries' = CheckAuthorityLog(entries, current_time)
  /\ last' = Call("enforce_halt_on_failure", <<a, current_time>>, None, ~can_execute)
  /\ guard_prev' = Some(can_execute)
  /\ UNCHANGED << smVars, clock, authVars, confVars, ghostVars, conf_obs,
                  current_token_id, last_user_action_time, created_at, expired_seen, frames >>

\* ExecutionGuard.enforce_halt_on_failure: can_execute_step, then raise
\* ExecutionGuardViolation if it returned false
EnforceHaltOnFailure(a, current_time) ==
  LET can_execute == CanExecuteReturn(a, current_time) IN
  /\ Explored(CanExecuteLog(entries, a, current_time))
  /\ entries' = CanExecuteLog(entries, a, current_time)
  /\ last' = Call("enforce_halt_on_failure", <<a, current_time>>, None, ~can_execute)
  /\ guard_prev' = Some(can_execute)
  /\ UNCHANGED << smVars, clock, authVars, confVars, ghostVars, conf_obs,
                  current_token_id, last_user_action_time, created_at, expired_seen, frames >>

\* ExecutionGuard.__init__: a guard over the same state machine and authority
\* manager, bound to current_token_id
NewGuard(token_id) ==
  /\ current_token_id' = token_id
  /\ guard_prev' = None
  /\ last' = Call("new_guard", <<token_id>>, None, FALSE)
  /\ UNCHANGED << smVars, entries, clock, authVars, confVars, ghostVars, conf_obs,
                  last_user_action_time, created_at, expired_seen, frames >>

\* can_execute_step("apply_eq", current_time): every keyword argument at its
\* default (confidence_score 1.0 is 100 hundredths).
DefaultArgs ==
  [ capability_id |-> "apply_eq", ttl_enforcer |-> None, silence_tracker |-> None,
    capability_registry |-> None,
    current_file |-> None, current_tool |-> None, current_modality |-> None,
    session_file |-> None, session_tool |-> None, session_modality |-> None,
    confidence_score |-> 100 ]

\* Boundary arguments: same file, another file, no recorded session file, an
\* empty current file name, another tool, another modality.
Boundaries ==
  { [ DefaultArgs EXCEPT !.current_file = Some("a.wav"), !.session_file = Some("a.wav") ],
    [ DefaultArgs EXCEPT !.current_file = Some("b.wav"), !.session_file = Some("a.wav") ],
    [ DefaultArgs EXCEPT !.current_file = Some("b.wav") ],
    [ DefaultArgs EXCEPT !.current_file = Some(""), !.session_file = Some("a.wav") ],
    [ DefaultArgs EXCEPT !.current_tool = Some("eq"), !.session_tool = Some("reverb") ],
    [ DefaultArgs EXCEPT !.current_file = Some("a.wav"), !.session_file = Some("a.wav"),
                         !.current_modality = Some("voice"),
                         !.session_modality = Some("touch") ] }

\* capability_registry = {"apply_eq", "apply_compression"}
Registry == Some({ "apply_eq", "apply_compression" })

\* The keyword arguments of the guard calls explored: each optional
\* collaborator absent or supplied, each argument at a passing and at a failing
\* value, and calls where several fail together.
GuardArgs ==
  { [ DefaultArgs EXCEPT !.ttl_enforcer = e, !.silence_tracker = t ] :
      e \in { None, Some("ttl_enforcer") }, t \in { None, Some("silence_tracker") } }
  \cup { [ DefaultArgs EXCEPT !.capability_id = c, !.capability_registry = Registry ] :
           c \in { "apply_eq", "apply_reverb" } }
  \cup Boundaries
  \cup { [ DefaultArgs EXCEPT !.confidence_score = c ] : c \in { 49, 50 } }
  \cup { [ DefaultArgs EXCEPT !.capability_id = "apply_reverb",
                              !.capability_registry = Registry,
                              !.confidence_score = 49 ],
         [ DefaultArgs EXCEPT !.ttl_enforcer = Some("ttl_enforcer"),
                              !.silence_tracker = Some("silence_tracker"),
                              !.capability_id = "apply_reverb",
                              !.capability_registry = Registry,
                              !.confidence_score = 0,
                              !.current_file = Some("b.wav"),
                              !.session_file = Some("a.wav") ] }

\* The keyword arguments enforce_halt_on_failure is explored with.
EnforceArgs ==
  { a \in GuardArgs :
      /\ a.current_file = None /\ a.current_tool = None
      /\ a.confidence_score = 100
      /\ (a.ttl_enforcer = None <=> a.silence_tracker = None) }

\* ------------------------------------------------------------------ clock
\* Time passes: datetime.utcnow() returns a later value.
Tick ==
  /\ clock < MaxTime
  /\ clock' = clock + 1
  /\ UNCHANGED << smVars, entries, authVars, confVars, last, ghostVars, conf_obs, guardVars >>

\* ------------------------------------------------------------------- Init
Init ==
  /\ current_state = "S0_INACTIVE"
  /\ entries = << >>
  /\ clock = 0
  /\ tokens = << >>
  /\ session_tokens = << >>
  /\ last = [ op |-> "init", arg |-> << >>, ret |-> None, raised |-> FALSE,
              pre_state |-> "S0_INACTIVE", pre_len |-> 0 ]
  /\ conf_tokens = << >>
  /\ acc_tokens = << >>
  /\ revoke_requested = { }
  /\ session_revoked = { }
  /\ conf_obs = [ calls |-> << >>, trues |-> << >>, burned |-> { },
                  pre_used |-> FALSE, revoked |-> { } ]
  /\ current_token_id = None
  /\ last_user_action_time = None
  /\ created_at = None
  /\ guard_prev = None
  /\ expired_seen = None
  /\ frames = [ thread \in Threads |-> IdleFrame ]

\* The session state machine driven by its orchestrator.
NextSM ==
  \/ \E to_state \in SessionState, a \in TransitionArgs :
        Transition(to_state, a[1], a[2])
  \/ CheckCanExecute

SpecSM == Init /\ [][NextSM]_vars

\* The authority manager driven by its callers, with the clock running.
NextAuth ==
  \/ \E session_id \in SessionIds, ttl_seconds \in TtlValues, scope \in Scopes :
        IssueToken(session_id, ttl_seconds, scope)
  \/ \E token_id \in TokenIdArgs, current_time \in Times :
        ValidateToken(token_id, current_time)
  \/ \E token_id \in TokenIdArgs, revoke_time \in Times :
        RevokeToken(token_id, revoke_time)
  \/ \E session_id \in SessionIds, revoke_time \in Times :
        RevokeSessionTokens(session_id, revoke_time)
  \/ Tick

SpecAuth == Init /\ [][NextAuth]_vars

\* The confirmation manager driven by its callers, with the clock running.
NextConf ==
  \/ \E session_id \in { "sA" }, acc_event_id \in AccEventIds,
        confirmation_type \in ConfirmationType, ttl_seconds \in TtlValues :
        IssueConfirmation(session_id, acc_event_id, confirmation_type, ttl_seconds)
  \/ \E token_id \in ConfTokenIdArgs, current_time \in Times :
        \E user_response \in UserResponses(token_id) :
          ValidateConfirmation(token_id, user_response, current_time)
  \/ \E token_id \in ConfTokenIdArgs, revocation_time \in Times :
        RevokeConfirmation(token_id, revocation_time)
  \/ Tick

SpecConf == Init /\ [][NextConf]_vars

\* The state the guard is constructed in: the session taken to S3_EXECUTING,
\* one authority token issued and the guard bound to it, a silence tracker and
\* a TTL enforcer constructed.
InitGuard ==
  /\ clock = 0
  /\ current_state = "S3_EXECUTING"
  /\ tokens = (Uuids[1] :> AuthorityToken(Uuids[1], "sA", 0, GuardTokenTtl, "mix_track"))
  /\ session_tokens = ("sA" :> << Uuids[1] >>)
  /\ entries =
       << TransitionEntry("S0_INACTIVE", "S1_SESSION_REQUESTED", "test", None),
          TransitionEntry("S1_SESSION_REQUESTED", "S2_CONSENT_GRANTED", "test", None),
          TransitionEntry("S2_CONSENT_GRANTED", "S3_EXECUTING", "test", None),
          IssuedEntry(Uuids[1], 0, GuardTokenTtl) >>
  /\ last = [ op |-> "init", arg |-> << >>, ret |-> None, raised |-> FALSE,
              pre_state |-> "S3_EXECUTING", pre_len |-> 4 ]
  /\ conf_tokens = << >>
  /\ acc_tokens = << >>
  /\ revoke_requested = { }
  /\ session_revoked = { }
  /\ conf_obs = [ calls |-> << >>, trues |-> << >>, burned |-> { },
                  pre_used |-> FALSE, revoked |-> { } ]
  /\ current_token_id = Some(Uuids[1])
  /\ last_user_action_time = None
  /\ created_at = None
  /\ guard_prev = None
  /\ expired_seen = None
  /\ frames = [ thread \in Threads |-> IdleFrame ]

\* Where the orchestrator takes an executing session: to a checkpoint and
\* back, or to a halt.
GuardTargets == { "S3_EXECUTING", "S4_ACC_CHECKPOINT", "S6_HALTED" }

\* The guard, with the session, the authority manager, the silence tracker and
\* the TTL enforcer it reads driven by their callers.
NextGuard ==
  \/ \E to_state \in GuardTargets : Transition(to_state, "r1", None)
  \/ \E token_id \in TokenIdArgs : RevokeTokenWithin(MaxLogGuard, token_id, clock)
  \/ \E token_id \in TokenIdArgs : NewGuard(Some(token_id))
  \/ NewGuard(None)
  \/ RecordUserAction(clock)
  \/ Initialize(clock)
  \/ \E a \in GuardArgs, current_time \in Times : CanExecuteStep(a, current_time)
  \/ \E a \in EnforceArgs, current_time \in Times : EnforceHaltOnFailure(a, current_time)

SpecGuard == InitGuard /\ [][NextGuard]_vars

\* The authority manager and the confirmation manager of one session, sharing
\* the audit log.
NextManagers ==
  \/ \E ttl_seconds \in TtlValues, scope \in Scopes : IssueToken("sA", ttl_seconds, scope)
  \/ \E token_id \in TokenIdArgs, current_time \in Times :
        ValidateToken(token_id, current_time)
  \/ \E token_id \in TokenIdArgs, revoke_time \in Times :
        RevokeToken(token_id, revoke_time)
  \/ \E acc_event_id \in AccEventIds, confirmation_type \in ConfirmationType,
        ttl_seconds \in TtlValues :
        IssueConfirmation("sA", acc_event_id, confirmation_type, ttl_seconds)
  \/ \E token_id \in ConfTokenIdArgs, current_time \in Times :
        \E user_response \in UserResponses(token_id) :
          ValidateConfirmation(token_id, user_response, current_time)
  \/ \E token_id \in ConfTokenIdArgs, revocation_time \in Times :
        RevokeConfirmation(token_id, revocation_time)

SpecManagers == Init /\ [][NextManagers]_vars

\* A silence tracker and a TTL enforcer driven and asked by their callers.
NextTimers ==
  \/ \E timestamp \in Times : RecordUserAction(timestamp)
  \/ \E at \in Times : Initialize(at)
  \/ \E current_time \in Times :
        Ask("check_silence", current_time, CheckSilence(current_time))
  \/ \E current_time \in Times :
        Ask("get_time_until_silence", current_time, GetTimeUntilSilence(current_time))
  \/ \E current_time \in Times :
        Ask("is_expired", current_time, TtlIsExpired(current_time))
  \/ \E current_time \in Times :
        Ask("get_remaining", current_time, GetRemaining(current_time))

SpecTimers == Init /\ [][NextTimers]_vars

\* SessionStateMachine(session_id): the session the guarded machine is of.
MachineSessionId == "sA"

\* One session's state machine and guard, and an authority manager that
\* issues tokens for that session and for another one.
NextSessions ==
  \/ \E to_state \in SessionState : Transition(to_state, "r1", None)
  \/ \E session_id \in SessionIds, ttl_seconds \in TtlValues, scope \in Scopes :
        IssueToken(session_id, ttl_seconds, scope)
  \/ \E token_id \in TokenIdArgs : NewGuard(Some(token_id))
  \/ \E current_time \in Times : CanExecuteStep(DefaultArgs, current_time)

SpecSessions == Init /\ [][NextSessions]_vars

\* Two threads calling transition() on one session with no lock around the
\* calls: the statements of the calls interleave.
NextConcurrent ==
  \/ \E thread \in Threads, to_state \in SessionState :
        TransitionCheck(thread, to_state, "r1", None)
  \/ \E thread \in Threads : TransitionReadFrom(thread)
  \/ \E thread \in Threads : TransitionLog(thread)
  \/ \E thread \in Threads : TransitionAssign(thread)

SpecConcurrent == Init /\ [][NextConcurrent]_vars

\* The entry a caller logs itself when a step has been executed.
ExecutedEntry ==
  AuditLogEntry(clock, "EXECUTION_STEP", Some("S3_EXECUTING"), None,
                "Self Session executed: apply_eq", Some(TRUE), None)

\* One session with all its components on one audit log: the state machine
\* and its step guard, the authority manager, the confirmation manager, the
\* execution guard, and a caller that logs executed steps itself.
NextCore ==
  \/ /\ Len(entries) < MaxLogCore
     /\ \/ \E to_state \in SessionState : Transition(to_state, "r1", None)
        \/ CheckCanExecute
        \/ GuardExecutionStep("step-1")
        \/ \E scope \in Scopes : IssueToken("sA", SessionTtl, scope)
        \/ \E token_id \in TokenIdArgs : ValidateToken(token_id, clock)
        \/ \E token_id \in TokenIdArgs : RevokeToken(token_id, clock)
        \/ RevokeSessionTokens("sA", clock)
        \/ \E acc_event_id \in AccEventIds :
              IssueConfirmation("sA", acc_event_id, "TYPE_CODE", SessionTtl)
        \/ \E token_id \in ConfTokenIdArgs :
              \E user_response \in UserResponses(token_id) :
                ValidateConfirmation(token_id, user_response, clock)
        \/ \E token_id \in ConfTokenIdArgs : RevokeConfirmation(token_id, clock)
        \/ \E token_id \in DOMAIN tokens : NewGuard(Some(token_id))
        \/ CanExecuteStep(DefaultArgs, clock)
        \/ EnforceHaltOnFailure(DefaultArgs, clock)
        \/ AppendEntry(ExecutedEntry)
  \/ Tick

SpecCore == Init /\ [][NextCore]_vars

\* One session followed over a longer run of transitions.
NextRestart ==
  \E to_state \in SessionState : TransitionWithin(MaxLogRestart, to_state, "r1", None)

SpecRestart == Init /\ [][NextRestart]_vars

\* The audit log written, read and queried by a client.
NextLog ==
  \/ \E entry \in ClientEntries : AppendEntry(entry)
  \/ \E edit \in ListEdits : GetEntriesAndModify(edit)
  \/ \E timestamp \in Times :
        Ask("has_execution_after", timestamp, HasExecutionAfter(entries, timestamp))

SpecLog == Init /\ [][NextLog]_vars

\* ================================================================== claims
LastEntry == entries[Len(entries)]

\* C1: for every current state A and every target B that is not in the legal
\* set of A (the transition table), transition(B, ...) raises
\* IllegalTransitionError, leaves the current state equal to A and appends no
\* audit log entry.
IllegalTransitionRejected ==
  ( last.op = "transition" /\ << last.pre_state, last.arg[1] >> \notin TableEdges )
    => /\ last.raised
       /\ current_state = last.pre_state
       /\ Len(entries) = last.pre_len

\* C1 witness: a transition was attempted at the checkpoint, with a non-empty
\* log, towards a state outside the checkpoint's legal set.
IllegalTransitionRejectedWitness ==
  /\ last.op = "transition"
  /\ last.pre_state = "S4_ACC_CHECKPOINT"
  /\ last.arg[1] = "S7_COMPLETED"
  /\ last.raised
  /\ Len(entries) = 4

NeverAutoResumed ==
  [][ /\ ( current_state # "S3_EXECUTING" /\ current_state' = "S3_EXECUTING" )
           => /\ current_state \in { "S2_CONSENT_GRANTED", "S4_ACC_CHECKPOINT" }
              /\ last'.op = "transition"
              /\ ~last'.raised
      /\ current_state = "S5_PAUSED" => current_state' # "S3_EXECUTING"
    ]_vars

\* C4 witness: the session was paused after a checkpoint and a direct
\* transition to S3_EXECUTING was attempted and refused.
NeverAutoResumedWitness ==
  /\ current_state = "S5_PAUSED"
  /\ last.op = "transition"
  /\ last.arg[1] = "S3_EXECUTING"
  /\ last.raised
  /\ \E i \in 1 .. Len(entries) :
       /\ entries[i].from_state = Some("S4_ACC_CHECKPOINT")
       /\ entries[i].to_state = Some("S5_PAUSED")

\* C5: revocation halts immediately: from each of S2, S3, S4 and S5 a single
\* transition to S6_HALTED succeeds and is logged as a STATE_TRANSITION with
\* to_state = S6_HALTED; in S6 every transition but the one to S0_INACTIVE is
\* rejected.
RevocationHaltsImmediately ==
  /\ ( /\ last.op = "transition"
       /\ last.pre_state \in { "S2_CONSENT_GRANTED", "S3_EXECUTING",
                               "S4_ACC_CHECKPOINT", "S5_PAUSED" }
       /\ last.arg[1] = "S6_HALTED" )
       => /\ ~last.raised
          /\ current_state = "S6_HALTED"
          /\ Len(entries) = last.pre_len + 1
          /\ LastEntry.event_type = "STATE_TRANSITION"
          /\ LastEntry.to_state = Some("S6_HALTED")
  /\ ( last.op = "transition" /\ last.pre_state = "S6_HALTED" )
       => ( last.raised <=> last.arg[1] # "S0_INACTIVE" )

\* C5 witness: a paused session was halted by one transition.
RevocationHaltsImmediatelyWitness ==
  /\ last.op = "transition"
  /\ last.pre_state = "S5_PAUSED"
  /\ current_state = "S6_HALTED"
  /\ ~last.raised

\* C6: from S3_EXECUTING, a transition directly to S7_COMPLETED raises
\* IllegalTransitionError and the state remains S3_EXECUTING.
DirectCompletionRejected ==
  ( /\ last.op = "transition"
    /\ last.pre_state = "S3_EXECUTING"
    /\ last.arg[1] = "S7_COMPLETED" )
    => ( last.raised /\ current_state = "S3_EXECUTING" )

\* C3: every state-changing or authority-deciding operation that returns
\* successfully (validate and revoke operations: on a known id) appends
\* exactly one audit log entry, and a rejected operation appends none.
LastCallOnKnownId ==
  CASE last.op \in { "validate_token", "revoke_token" } -> last.arg[1] \in DOMAIN tokens
    [] last.op \in { "validate_confirmation", "revoke_confirmation" } ->
         last.arg[1] \in DOMAIN conf_tokens
    [] OTHER -> TRUE

ExactlyOneEntryPerOperation ==
  /\ ( /\ last.op \in { "transition", "check_can_execute", "issue_token",
                        "validate_token", "revoke_token", "issue_confirmation",
                        "validate_confirmation", "revoke_confirmation" }
       /\ ~last.raised
       /\ LastCallOnKnownId )
       => Len(entries) = last.pre_len + 1
  /\ last.raised => Len(entries) = last.pre_len

\* C7: for a known token id, validate_token(token_id, now) returns true iff
\* the token is not revoked and now < issued_at + ttl_seconds, and appends one
\* AUTHORITY_CHECK entry whose authority_valid equals the returned value.
ValidateTokenResult ==
  ( last.op = "validate_token" /\ last.arg[1] \in DOMAIN tokens )
    => LET token == tokens[last.arg[1]]
           now == last.arg[2]
       IN
       /\ last.ret = Some(~token.is_revoked /\ now < token.issued_at + token.ttl_seconds)
       /\ Len(entries) = last.pre_len + 1
       /\ LastEntry.event_type = "AUTHORITY_CHECK"
       /\ LastEntry.authority_valid = last.ret

\* C7 witness: an unrevoked token with a positive ttl was validated at
\* exactly issued_at + ttl_seconds, and found expired.
ValidateTokenResultWitness ==
  /\ last.op = "validate_token"
  /\ last.arg[1] \in DOMAIN tokens
  /\ ~tokens[last.arg[1]].is_revoked
  /\ tokens[last.arg[1]].ttl_seconds > 0
  /\ last.arg[2] = tokens[last.arg[1]].issued_at + tokens[last.arg[1]].ttl_seconds
  /\ last.ret = Some(FALSE)

\* C8: after revoke_token(t, ...) on a known token, every later
\* validate_token(t, now) returns false, for every now, whatever happened in
\* between.
RevokedNeverValidates ==
  ( last.op = "validate_token" /\ last.arg[1] \in revoke_requested )
    => last.ret = Some(FALSE)

\* C8 witness: a revoked token was validated at a time before its original
\* expiry.
RevokedNeverValidatesWitness ==
  /\ last.op = "validate_token"
  /\ last.arg[1] \in revoke_requested
  /\ last.arg[2] < tokens[last.arg[1]].issued_at + tokens[last.arg[1]].ttl_seconds
  /\ last.ret = Some(FALSE)

\* C9: after revoke_session_tokens(s, now), every token that had been issued
\* under s before the call is revoked and valid at no time, and
\* validate_token returns false for it.
SessionRevocationCascades ==
  /\ \A t \in session_revoked :
       /\ tokens[t].is_revoked
       /\ \A now \in Times : ~IsValid(tokens[t], now)
  /\ ( last.op = "validate_token" /\ last.arg[1] \in session_revoked )
       => last.ret = Some(FALSE)

\* C9 witness: revoke_session_tokens was called on a session holding two
\* tokens.
SessionRevocationCascadesWitness ==
  /\ last.op = "revoke_session_tokens"
  /\ Cardinality(session_revoked) = 2
  /\ Len(entries) = last.pre_len + 2

\* C10: authority tokens are created only by issue_token, a token's
\* is_revoked never goes from true back to false, and no operation removes a
\* token from the manager.
TokensOnlyGrowRevocationSticks ==
  [][ /\ DOMAIN tokens \subseteq DOMAIN tokens'
      /\ \A t \in DOMAIN tokens : tokens[t].is_revoked => tokens'[t].is_revoked
      /\ DOMAIN tokens' # DOMAIN tokens
           => /\ last'.op = "issue_token"
              /\ Cardinality(DOMAIN tokens') = Cardinality(DOMAIN tokens) + 1
    ]_vars

\* C10 witness: the only token was revoked twice and is still revoked.
TokensOnlyGrowRevocationSticksWitness ==
  /\ Cardinality(DOMAIN tokens) = 1
  /\ \A t \in DOMAIN tokens : tokens[t].is_revoked
  /\ Len(entries) = 3
  /\ entries[2].event_type = "AUTHORITY_REVOKED"
  /\ entries[3].event_type = "AUTHORITY_REVOKED"

\* The last call was validate_confirmation on a known token.
LastValidateOnKnownToken ==
  /\ last.op = "validate_confirmation"
  /\ Len(last.arg) = 3

\* The response of the last validate_confirmation call hashes to the stored
\* hash of its token, and the call was made before the token's expiry.
LastResponseCorrectAndInTime ==
  LET token == conf_tokens[last.arg[1]] IN
  /\ Sha256(last.arg[2]) = token.challenge_hash
  /\ last.arg[3] < token.issued_at + token.ttl_seconds

\* C11: confirmation tokens are single-use: at most one validate_confirmation
\* call on a token ever returns true, and every validate_confirmation call made
\* after an earlier validate_confirmation call on the same token returns false,
\* even with the correct response.
ConfirmationSingleUse ==
  /\ \A id \in DOMAIN conf_tokens : CountOf(conf_obs.trues, id) <= 1
  /\ ( LastValidateOnKnownToken /\ CountOf(conf_obs.calls, last.arg[1]) >= 2 )
       => last.ret = Some(FALSE)

\* A second call with the correct response, in time, on a token whose first
\* call returned true: it returns false.
ConfirmationSingleUseWitness ==
  /\ LastValidateOnKnownToken
  /\ CountOf(conf_obs.calls, last.arg[1]) >= 2
  /\ CountOf(conf_obs.trues, last.arg[1]) = 1
  /\ LastResponseCorrectAndInTime
  /\ last.ret = Some(FALSE)

\* C12: an incorrect response burns the token: after validate_confirmation on
\* an unused, unexpired token with a response whose hash differs from the
\* stored hash, the call returns false, the token has is_used = true and
\* was_valid = false, and every later validate_confirmation on it returns
\* false, even for the correct response.
WrongResponseBurnsToken ==
  /\ \A id \in conf_obs.burned :
        /\ conf_tokens[id].is_used
        /\ conf_tokens[id].was_valid = Some(FALSE)
  /\ ( LastValidateOnKnownToken /\ last.arg[1] \in conf_obs.burned )
       => last.ret = Some(FALSE)

\* The correct response, in time, submitted after a wrong one: refused.
WrongResponseBurnsTokenWitness ==
  /\ LastValidateOnKnownToken
  /\ last.arg[1] \in conf_obs.burned
  /\ CountOf(conf_obs.calls, last.arg[1]) >= 2
  /\ LastResponseCorrectAndInTime
  /\ last.ret = Some(FALSE)

\* C13: once a token has been marked used, its recorded was_valid and used_at
\* are never changed by any later validate_confirmation or revoke_token call on
\* that token (marking used is irreversible).
UsedOutcomeNeverChanges ==
  [][ \A id \in DOMAIN conf_tokens :
        conf_tokens[id].is_used =>
          /\ conf_tokens'[id].is_used
          /\ conf_tokens'[id].was_valid = conf_tokens[id].was_valid
          /\ conf_tokens'[id].used_at = conf_tokens[id].used_at ]_vars

\* C14: for a token of type ARTICULATED_UNDERSTANDING, validate_confirmation
\* returns false for every user_response, the sentinel text included.
ArticulatedNeverValidates ==
  ( /\ LastValidateOnKnownToken
    /\ conf_tokens[last.arg[1]].confirmation_type = "ARTICULATED_UNDERSTANDING" )
  => last.ret = Some(FALSE)

\* C15: validate_confirmation on a known, unused token at
\* now >= issued_at + ttl_seconds returns false even when the response is
\* correct, and leaves the token with is_used = true and was_valid = false.
LateAttemptConsumesToken ==
  ( /\ LastValidateOnKnownToken
    /\ ~conf_obs.pre_used
    /\ last.arg[3] >= conf_tokens[last.arg[1]].issued_at
                        + conf_tokens[last.arg[1]].ttl_seconds )
  => /\ last.ret = Some(FALSE)
     /\ conf_tokens[last.arg[1]].is_used
     /\ conf_tokens[last.arg[1]].was_valid = Some(FALSE)

\* The correct response submitted to an unused token at or after its expiry.
LateAttemptConsumesTokenWitness ==
  /\ LastValidateOnKnownToken
  /\ ~conf_obs.pre_used
  /\ Sha256(last.arg[2]) = conf_tokens[last.arg[1]].challenge_hash
  /\ last.arg[3] >= conf_tokens[last.arg[1]].issued_at
                      + conf_tokens[last.arg[1]].ttl_seconds
  /\ last.ret = Some(FALSE)
  /\ conf_tokens[last.arg[1]].is_used

\* C20: check_can_execute returns true iff the current state is S3_EXECUTING;
\* every call appends exactly one AUTHORITY_CHECK entry, with from_state the
\* current state and authority_valid the result, and leaves the current state
\* unchanged.
CheckCanExecuteReportsExecuting ==
  last.op = "check_can_execute" =>
    /\ last.ret = Some(last.pre_state = "S3_EXECUTING")
    /\ Len(entries) = last.pre_len + 1
    /\ LastEntry.event_type = "AUTHORITY_CHECK"
    /\ LastEntry.from_state = Some(last.pre_state)
    /\ LastEntry.to_state = None
    /\ LastEntry.authority_valid = last.ret
    /\ current_state = last.pre_state

\* A check made in S3_EXECUTING returned true, after one made elsewhere
\* returned false.
CheckCanExecuteReportsExecutingWitness ==
  /\ last.op = "check_can_execute"
  /\ last.ret = Some(TRUE)
  /\ current_state = "S3_EXECUTING"
  /\ \E i \in 1 .. Len(entries) - 1 :
        /\ entries[i].event_type = "AUTHORITY_CHECK"
        /\ entries[i].authority_valid = Some(FALSE)

\* The guard call `last` records: its keyword arguments and its current_time.
GuardCallArgs == last.arg[1]
GuardCallNow == last.arg[2]

\* A boundary value is present: given, and not the empty string.
Present(x) == x # None /\ x # Some("")

\* The token the guard is bound to is known, not revoked and not expired at now.
BoundTokenValidAt(now) ==
  /\ current_token_id # None
  /\ current_token_id[1] \in DOMAIN tokens
  /\ ~tokens[current_token_id[1]].is_revoked
  /\ now < tokens[current_token_id[1]].issued_at + tokens[current_token_id[1]].ttl_seconds

\* The seven conditions of the guard, by name, for keyword arguments a at now.
SevenConditions(a, now) ==
  [ in_executing_state |-> current_state = "S3_EXECUTING",
    authority_valid |-> BoundTokenValidAt(now),
    ttl_valid |-> ( a.ttl_enforcer # None =>
                      ~(created_at # None /\ now >= created_at[1] + SessionTtl) ),
    silence_not_exceeded |-> ( a.silence_tracker # None =>
                                 /\ last_user_action_time # None
                                 /\ now - last_user_action_time[1] <= SilenceTimeout ),
    boundary_not_crossed |->
      ~ \/ Present(a.current_file) /\ Present(a.session_file)
             /\ a.current_file # a.session_file
        \/ Present(a.current_tool) /\ Present(a.session_tool)
             /\ a.current_tool # a.session_tool
        \/ Present(a.current_modality) /\ Present(a.session_modality)
             /\ a.current_modality # a.session_modality,
    capability_in_registry |-> ( a.capability_registry # None =>
                                   a.capability_id \in a.capability_registry[1] ),
    confidence_not_degraded |-> a.confidence_score >= ConfidenceThreshold ]

\* The names of the conditions that are false.
FalseConditions(a, now) ==
  { name \in DOMAIN SevenConditions(a, now) : ~SevenConditions(a, now)[name] }

GuardFailedAppended ==
  SelectSeq(SubSeq(entries, last.pre_len + 1, Len(entries)),
            LAMBDA e : e.event_type = "EXECUTION_GUARD_FAILED")

\* C17: every failing can_execute_step call appends exactly one
\* EXECUTION_GUARD_FAILED entry whose failed_conditions list is exactly the set
\* of the conditions that were false; a passing call appends none.
GuardFailureNamesFalseConditions ==
  last.op = "can_execute_step" =>
    IF last.ret = Some(FALSE)
      THEN /\ Len(GuardFailedAppended) = 1
           /\ LET failed == GuardFailedAppended[1].extra[1].failed_conditions IN
              /\ { failed[i] : i \in 1 .. Len(failed) }
                   = FalseConditions(GuardCallArgs, GuardCallNow)
              /\ Len(failed) = Cardinality(FalseConditions(GuardCallArgs, GuardCallNow))
      ELSE Len(GuardFailedAppended) = 0

\* In S3 with a revoked token and everything else passing, the list is exactly
\* ["authority_valid"].
GuardFailureNamesFalseConditionsWitness ==
  /\ last.op = "can_execute_step"
  /\ last.ret = Some(FALSE)
  /\ current_state = "S3_EXECUTING"
  /\ current_token_id # None
  /\ current_token_id[1] \in DOMAIN tokens
  /\ tokens[current_token_id[1]].is_revoked
  /\ LastEntry.event_type = "EXECUTION_GUARD_FAILED"
  /\ LastEntry.extra[1].failed_conditions = << "authority_valid" >>

\* C18: enforce_halt_on_failure raises ExecutionGuardViolation iff
\* can_execute_step with the same arguments returns false, and returns normally
\* otherwise; when it raises, the EXECUTION_GUARD_FAILED entry is already in the
\* log.
EnforceRaisesIffGuardFails ==
  last.op = "enforce_halt_on_failure" =>
    /\ last.raised = ~CanExecuteReturn(GuardCallArgs, GuardCallNow)
    /\ last.raised = (FalseConditions(GuardCallArgs, GuardCallNow) # { })
    /\ last.raised =>
         /\ Len(entries) > last.pre_len
         /\ LastEntry.event_type = "EXECUTION_GUARD_FAILED"
         /\ Len(GuardFailedAppended) = 1

\* enforce_halt_on_failure raised over a capability outside the registry.
EnforceRaisesIffGuardFailsWitness ==
  /\ last.op = "enforce_halt_on_failure"
  /\ last.raised
  /\ LastEntry.event_type = "EXECUTION_GUARD_FAILED"
  /\ LastEntry.extra[1].failed_conditions = << "capability_in_registry" >>

\* After the last call: the session is not executing, or the guard's token is
\* revoked or expired at the call's now, or the supplied TTL enforcer is expired.
AuthorityGone ==
  \/ current_state # "S3_EXECUTING"
  \/ ~BoundTokenValidAt(GuardCallNow)
  \/ ~SevenConditions(GuardCallArgs, GuardCallNow).ttl_valid

\* C19: the guard caches nothing: if can_execute_step returned true and
\* afterwards the token is revoked (or the session leaves S3, or the token or
\* the TTL expires at the new now), the very next can_execute_step call returns
\* false.
GuardCachesNothing ==
  [][ ( /\ guard_prev = Some(TRUE)
        /\ last'.op = "can_execute_step"
        /\ entries' # entries
        /\ AuthorityGone' )
      => last'.ret = Some(FALSE) ]_vars

\* A call passed, the token was revoked, and the next call failed on
\* authority_valid alone.
GuardCachesNothingWitness ==
  /\ last.op = "can_execute_step"
  /\ last.ret = Some(FALSE)
  /\ LastEntry.event_type = "EXECUTION_GUARD_FAILED"
  /\ LastEntry.extra[1].failed_conditions = << "authority_valid" >>
  /\ GuardFailures(entries) = 1
  /\ \E i, j \in 5 .. Len(entries) :
       /\ i < j
       /\ entries[i].event_type = "AUTHORITY_CHECK"
       /\ entries[i].authority_valid = Some(TRUE)
       /\ entries[j].event_type = "AUTHORITY_REVOKED"

\* The call a step makes is a lookup of an id that was never issued.
UnknownIdLookup ==
  \/ /\ last'.op \in { "validate_token", "revoke_token" }
     /\ last'.arg[1] \notin DOMAIN tokens
  \/ /\ last'.op \in { "validate_confirmation", "revoke_confirmation" }
     /\ last'.arg[1] \notin DOMAIN conf_tokens

\* C21: unknown-id lookups are soft failures: validate_token and
\* validate_confirmation on an id that was never issued return false, both
\* revoke_token operations on such an id are no-ops; none of them raises,
\* changes any token, or appends an audit entry.
UnknownIdLookupsAreSoft ==
  [][ UnknownIdLookup =>
        /\ ~last'.raised
        /\ last'.ret = ( IF last'.op \in { "validate_token", "validate_confirmation" }
                           THEN Some(FALSE) ELSE None )
        /\ UNCHANGED << tokens, session_tokens, conf_tokens, acc_tokens, entries >>
    ]_vars

\* validate_token on an unknown id while tokens of both managers exist.
UnknownIdLookupsAreSoftWitness ==
  /\ last.op = "validate_token"
  /\ last.arg[1] \notin DOMAIN tokens
  /\ last.ret = Some(FALSE)
  /\ Len(entries) = last.pre_len
  /\ DOMAIN tokens # { }
  /\ DOMAIN conf_tokens # { }

\* C22: check_silence(now) returns true when no user action was ever recorded;
\* otherwise it returns true iff now - last_action_time > timeout_seconds
\* (strictly: at exactly the timeout it is not yet silent), last_action_time
\* being the timestamp of the most recent record_user_action call.
CheckSilenceStrictlyAfterTimeout ==
  last.op = "check_silence" =>
    last.ret = Some( IF last_user_action_time = None
                       THEN TRUE
                       ELSE last.arg[1] - last_user_action_time[1] > SilenceTimeout )

\* Asked at exactly the timeout after the last action: not yet silent.
CheckSilenceStrictlyAfterTimeoutWitness ==
  /\ last.op = "check_silence"
  /\ last_user_action_time # None
  /\ last.arg[1] - last_user_action_time[1] = SilenceTimeout
  /\ last.ret = Some(FALSE)

\* C23: after initialize(created_at), is_expired(now) is true iff
\* now >= created_at + ttl_seconds, with no grace period: true at exactly
\* created_at + ttl_seconds, false at created_at when ttl_seconds > 0.
TtlExpiresAtDeadline ==
  ( last.op = "is_expired" /\ created_at # None ) =>
    last.ret = Some(last.arg[1] >= created_at[1] + SessionTtl)

\* Asked at exactly created_at + ttl_seconds: expired.
TtlExpiresAtDeadlineWitness ==
  /\ last.op = "is_expired"
  /\ created_at # None
  /\ last.arg[1] = created_at[1] + SessionTtl
  /\ last.ret = Some(TRUE)

\* C24: the session deadline cannot be extended: once the enforcer has reported
\* is_expired(t) = true, no sequence of operations on it makes is_expired(t')
\* false for any t' >= t.
DeadlineNeverExtended ==
  ( /\ last.op = "is_expired"
    /\ expired_seen # None
    /\ last.arg[1] >= expired_seen[1] )
  => last.ret = Some(TRUE)

\* C30: AuthorityManager.revoke_token is idempotent on a known token: revoking
\* an already revoked token, possibly with a different revoke time, leaves
\* is_revoked and revoked_at exactly as the first revocation set them.
RevokeTokenIdempotent ==
  [][ ( /\ last'.op = "revoke_token"
        /\ Len(last'.arg) = 2
        /\ last'.arg[1] \in DOMAIN tokens
        /\ tokens[last'.arg[1]].is_revoked )
      => /\ tokens'[last'.arg[1]].is_revoked = tokens[last'.arg[1]].is_revoked
         /\ tokens'[last'.arg[1]].revoked_at = tokens[last'.arg[1]].revoked_at ]_vars

\* C26: ConfirmationManager.revoke_token on a known token forces
\* is_used = true and was_valid = false, and from then on every
\* validate_confirmation on that token returns false, whatever the response
\* and the time.
RevokedConfirmationNeverValidates ==
  /\ \A id \in conf_obs.revoked :
       /\ conf_tokens[id].is_used
       /\ conf_tokens[id].was_valid = Some(FALSE)
  /\ ( LastValidateOnKnownToken /\ last.arg[1] \in conf_obs.revoked )
       => last.ret = Some(FALSE)

\* A revoked token refused although the response was the right one, given
\* before the token's expiry.
RevokedConfirmationNeverValidatesWitness ==
  /\ LastValidateOnKnownToken
  /\ last.arg[1] \in conf_obs.revoked
  /\ LastResponseCorrectAndInTime
  /\ last.ret = Some(FALSE)

\* The types whose expected response is a generated code, phrase or gesture.
HashedTypes == { "TYPE_CODE", "VOICE_PHRASE", "DELIBERATE_GESTURE" }

\* The last call was validate_confirmation on a known token of a hashed type
\* that was unused before the call and not yet expired at the call's time.
LastFirstValidateOfHashedType ==
  /\ LastValidateOnKnownToken
  /\ conf_tokens[last.arg[1]].confirmation_type \in HashedTypes
  /\ ~conf_obs.pre_used
  /\ last.arg[3] < conf_tokens[last.arg[1]].issued_at
                     + conf_tokens[last.arg[1]].ttl_seconds

\* C28: the first validate_confirmation on a known, unused, unexpired token
\* of type TYPE_CODE, VOICE_PHRASE or DELIBERATE_GESTURE returns true iff
\* user_response is exactly the generated code, phrase or gesture identifier
\* (not the whole challenge text), marks the token used with that outcome and
\* appends exactly one CONFIRMATION_VALIDATED entry whose authority_valid
\* equals the result.
FirstValidateComparesWithSecret ==
  LastFirstValidateOfHashedType =>
    LET token == conf_tokens[last.arg[1]] IN
    /\ last.ret = Some(last.arg[2] = token.challenge_payload[2])
    /\ token.is_used
    /\ token.was_valid = last.ret
    /\ Len(entries) = last.pre_len + 1
    /\ LastEntry.event_type = "CONFIRMATION_VALIDATED"
    /\ LastEntry.authority_valid = last.ret

\* The whole challenge text was submitted and refused.
FirstValidateComparesWithSecretWitness ==
  /\ LastFirstValidateOfHashedType
  /\ last.arg[2] = ChallengeText(conf_tokens[last.arg[1]].challenge_payload)
  /\ last.ret = Some(FALSE)
  /\ LastEntry.event_type = "CONFIRMATION_VALIDATED"
  /\ LastEntry.authority_valid = Some(FALSE)

\* C29: all confirmation attempts are audited: every validate_confirmation
\* call on a known token id, the replay on a used token and the attempt on
\* an expired token included, appends an audit entry.
EveryConfirmationAttemptAudited ==
  LastValidateOnKnownToken =>
    /\ Len(entries) > last.pre_len
    /\ LastEntry.event_type = "CONFIRMATION_VALIDATED"

\* s is a prefix of t
IsPrefix(s, t) == Len(s) <= Len(t) /\ SubSeq(t, 1, Len(s)) = s

\* C25: the audit log is append-only and ordered by insertion: the log
\* before an operation is a prefix of the log after it, log() puts its entry
\* last, and modifying the list returned by get_entries does not change the
\* log.
AuditLogAppendOnly ==
  [][ /\ IsPrefix(entries, entries')
      /\ last'.op = "log" => entries' = Append(entries, last'.arg[1])
      /\ last'.op = "get_entries" => entries' = entries ]_vars

\* The caller changed the list it was given; the log differs from that list.
AuditLogAppendOnlyWitness ==
  /\ last.op = "get_entries"
  /\ Len(entries) >= 2
  /\ last.ret # Some(entries)

\* C27: has_execution_after(ts) returns true iff the log contains at least
\* one entry whose event_type is EXECUTION_STEP or STATE_MUTATION and whose
\* timestamp is strictly greater than ts; entries of other types never make
\* it true.
HasExecutionAfterCountsOnlyExecutions ==
  last.op = "has_execution_after" =>
    last.ret = Some( \E i \in 1 .. Len(entries) :
                       /\ entries[i].event_type \in { "EXECUTION_STEP", "STATE_MUTATION" }
                       /\ entries[i].timestamp > last.arg[1] )

\* An execution entry at exactly ts and an entry of another type after ts:
\* the answer is false.
HasExecutionAfterCountsOnlyExecutionsWitness ==
  /\ last.op = "has_execution_after"
  /\ last.ret = Some(FALSE)
  /\ \E i \in 1 .. Len(entries) :
       /\ entries[i].event_type \in { "EXECUTION_STEP", "STATE_MUTATION" }
       /\ entries[i].timestamp = last.arg[1]
  /\ \E i \in 1 .. Len(entries) :
       /\ entries[i].event_type \notin { "EXECUTION_STEP", "STATE_MUTATION" }
       /\ entries[i].timestamp > last.arg[1]

GuardHasNoKnownToken ==
  \/ current_token_id = None
  \/ current_token_id[1] \notin DOMAIN tokens

\* C32: authority is never vacuous: when the guard has no token id or its
\* token id is unknown to the authority manager, authority_valid is false and
\* can_execute_step returns false (enforce_halt_on_failure raises) in every
\* session state and for every value of the other arguments, even when every
\* other collaborator is absent and passes vacuously.
AuthorityNeverVacuous ==
  ( last.op \in { "can_execute_step", "enforce_halt_on_failure" }
    /\ GuardHasNoKnownToken )
  => /\ last.op = "can_execute_step" => last.ret = Some(FALSE)
     /\ last.op = "enforce_halt_on_failure" => last.raised
     /\ Len(entries) = last.pre_len + 1
     /\ LastEntry.event_type = "EXECUTION_GUARD_FAILED"
     /\ \E i \in 1 .. Len(LastEntry.extra[1].failed_conditions) :
          LastEntry.extra[1].failed_conditions[i] = "authority_valid"

\* A guard without a token id asked in S3 with every other argument at its
\* default: authority_valid alone fails.
AuthorityNeverVacuousWitness ==
  /\ last.op = "can_execute_step"
  /\ current_token_id = None
  /\ last.pre_state = "S3_EXECUTING"
  /\ last.arg[1] = DefaultArgs
  /\ last.ret = Some(FALSE)
  /\ LastEntry.extra[1].failed_conditions = << "authority_valid" >>

\* The guard of the last can_execute_step call is bound to a known token
\* that was issued under another session than the machine's.
LastGuardHoldsForeignToken ==
  /\ last.op = "can_execute_step"
  /\ current_token_id # None
  /\ current_token_id[1] \in DOMAIN tokens
  /\ tokens[current_token_id[1]].session_id # MachineSessionId

\* C33: authority tokens are scoped to their session: a guard bound to the
\* state machine of one session fails authority_valid, and so refuses the
\* step, when its current_token_id names a valid, unrevoked token issued
\* under another session id.
TokenScopedToSession ==
  LastGuardHoldsForeignToken
  => /\ ~CheckAuthorityValid(last.arg[2])
     /\ last.ret = Some(FALSE)

\* (from_state, to_state) is an edge of the transition table
LegalEdge(from_state, to_state) == to_state \in LEGAL_TRANSITIONS[from_state]

\* C34: without external serialization the state machine is not safe: when
\* two transition() calls on one session interleave statement by statement,
\* both can pass the legality check against the same current state and both
\* append a STATE_TRANSITION entry, the second recording an edge that is not
\* in the table (from S4, transition(S5) and transition(S3) leave a logged
\* S5 -> S3 edge and the session in S3).  Every call still passed its own
\* check: an entry records an illegal edge only when the state changed
\* between the call's check and its reading of from_state.
IllegalEdgeOnlyFromStaleCheck ==
  \A thread \in Threads :
    frames[thread].pc \in { "read", "logged", "done" } =>
      /\ LegalEdge(frames[thread].checked, frames[thread].to_state)
      /\ ~LegalEdge(frames[thread].from_state, frames[thread].to_state)
           => frames[thread].checked # frames[thread].from_state

\* Both calls passed the check in S4; the log ends with S4 -> S5 followed by
\* the illegal edge S5 -> S3, and the session is in S3.
IllegalEdgeOnlyFromStaleCheckWitness ==
  /\ \A thread \in Threads :
       /\ frames[thread].pc = "done"
       /\ frames[thread].checked = "S4_ACC_CHECKPOINT"
  /\ Len(entries) >= 2
  /\ entries[Len(entries) - 1].event_type = "STATE_TRANSITION"
  /\ entries[Len(entries) - 1].from_state = Some("S4_ACC_CHECKPOINT")
  /\ entries[Len(entries) - 1].to_state = Some("S5_PAUSED")
  /\ LastEntry.event_type = "STATE_TRANSITION"
  /\ LastEntry.from_state = Some("S5_PAUSED")
  /\ LastEntry.to_state = Some("S3_EXECUTING")
  /\ ~LegalEdge("S5_PAUSED", "S3_EXECUTING")
  /\ current_state = "S3_EXECUTING"

\* The STATE_TRANSITION entries of the log, in order.
LoggedTransitions == SelectSeq(entries, LAMBDA e : e.event_type = "STATE_TRANSITION")

\* C35: with serialized calls the STATE_TRANSITION entries of a session's log
\* form one path of the legal graph: the first entry has from_state = S0,
\* each later entry's from_state is the previous entry's to_state, every
\* logged (from, to) pair is a legal edge, and the current state is the
\* to_state of the last STATE_TRANSITION entry (S0 if there is none, as in a
\* new machine with its empty log).
LoggedTransitionsFormLegalPath ==
  LET path == LoggedTransitions IN
  /\ path # << >> => path[1].from_state = Some("S0_INACTIVE")
  /\ \A i \in 2 .. Len(path) : path[i].from_state = path[i - 1].to_state
  /\ \A i \in 1 .. Len(path) :
       /\ path[i].from_state # None /\ path[i].to_state # None
       /\ LegalEdge(path[i].from_state[1], path[i].to_state[1])
  /\ current_state = IF path = << >> THEN "S0_INACTIVE"
                                     ELSE path[Len(path)].to_state[1]

\* A path of four transitions with other entries in between, ended by a
\* transition that has just been made.
LoggedTransitionsFormLegalPathWitness ==
  /\ last.op = "transition"
  /\ ~last.raised
  /\ Len(LoggedTransitions) >= 4
  /\ Len(entries) > Len(LoggedTransitions)
  /\ LastEntry.event_type = "STATE_TRANSITION"

\* The event types has_execution_after() counts.
ExecutionEvents == { "EXECUTION_STEP", "STATE_MUTATION" }

\* C36: no core operation (transition, check_can_execute,
\* guard_execution_step, can_execute_step, enforce_halt_on_failure, any
\* authority or confirmation manager operation) appends an entry of type
\* EXECUTION_STEP or STATE_MUTATION: every entry a core operation appends is
\* of another type, and has_execution_after(ts) keeps its answer for every ts
\* across a core operation (false, on the log a new session starts with); it
\* can become true only through an entry the caller logs itself.
CoreOperationsLogNoExecution ==
  [][ last'.op # "log"
      => /\ \A i \in (Len(entries) + 1) .. Len(entries') :
              entries'[i].event_type \notin ExecutionEvents
         /\ \A ts \in Times :
              HasExecutionAfter(entries', ts) = HasExecutionAfter(entries, ts) ]_vars

\* A step passed the step guard after time 0 and was logged as
\* EXECUTION_STEP_GUARDED; the log, written by core operations only, has no
\* execution after time 0.
CoreOperationsLogNoExecutionWitness ==
  /\ last.op = "guard_execution_step"
  /\ last.ret = Some(TRUE)
  /\ LastEntry.event_type = "EXECUTION_STEP_GUARDED"
  /\ LastEntry.timestamp > 0
  /\ \A i \in 1 .. Len(entries) : entries[i].event_type \notin ExecutionEvents
  /\ ~HasExecutionAfter(entries, 0)

\* C37: for a TTLEnforcer in every state, before initialize included,
\* is_expired(now) is true exactly when get_remaining(now) is zero; so a
\* supplied enforcer with zero remaining time always makes the guard's
\* ttl_valid condition fail.
ExpiredIffNothingRemains ==
  last.op \in { "is_expired", "get_remaining" } =>
    LET now == last.arg[1] IN
    /\ TtlIsExpired(now) <=> (GetRemaining(now) = 0)
    /\ GetRemaining(now) = 0 => ~CheckTtlValid(Some("ttl_enforcer"), now)

\* S0_INACTIVE is from_state itself or at most two legal transitions away.
InactiveWithinTwo(from_state) ==
  \/ from_state = "S0_INACTIVE"
  \/ IsLegal(from_state, "S0_INACTIVE")
  \/ \E mid \in SessionState :
       IsLegal(from_state, mid) /\ IsLegal(mid, "S0_INACTIVE")

\* Between entries i and j of path the session entered S0, then S1, then S2.
RestartedBetween(path, i, j) ==
  \E a, b, c \in (i + 1) .. (j - 1) :
    /\ a < b /\ b < c
    /\ path[a].to_state = Some("S0_INACTIVE")
    /\ path[b].to_state = Some("S1_SESSION_REQUESTED")
    /\ path[c].to_state = Some("S2_CONSENT_GRANTED")

\* C38: the state machine has no terminal state: each of the eight states
\* has a legal outgoing transition, from every state S0_INACTIVE is reachable
\* in at most two legal transitions, and after S6_HALTED the session reaches
\* S3_EXECUTING again only by passing through S0, S1 and S2 in that order.
NoTerminalStateRestartFromInactive ==
  /\ \A s \in SessionState :
       /\ \E to_state \in SessionState : IsLegal(s, to_state)
       /\ InactiveWithinTwo(s)
  /\ LET path == LoggedTransitions IN
     \A i, j \in 1 .. Len(path) :
       ( /\ i < j
         /\ path[i].to_state = Some("S6_HALTED")
         /\ path[j].to_state = Some("S3_EXECUTING") )
       => RestartedBetween(path, i, j)

\* A halted session that is executing again.
NoTerminalStateRestartFromInactiveWitness ==
  /\ last.op = "transition"
  /\ ~last.raised
  /\ current_state = "S3_EXECUTING"
  /\ \E i \in 1 .. Len(LoggedTransitions) :
       LoggedTransitions[i].to_state = Some("S6_HALTED")

\* C39: revoke_session_tokens(s, now) changes nothing outside session s:
\* tokens indexed under another session id keep their is_revoked and
\* revoked_at, a call for a session with no tokens changes nothing and
\* appends nothing, and the call appends exactly one AUTHORITY_REVOKED entry
\* per token indexed under s.
RevokeSessionTokensFrame ==
  [][ last' # last /\ last'.op = "revoke_session_tokens"
      => LET s == last'.arg[1] IN
         /\ DOMAIN tokens' = DOMAIN tokens
         /\ session_tokens' = session_tokens
         /\ \A id \in DOMAIN tokens :
              tokens[id].session_id # s => tokens'[id] = tokens[id]
         /\ s \notin DOMAIN session_tokens => tokens' = tokens /\ entries' = entries
         /\ s \in DOMAIN session_tokens
              => /\ IsPrefix(entries, entries')
                 /\ Len(entries') = Len(entries) + Len(session_tokens[s])
                 /\ \A i \in (Len(entries) + 1) .. Len(entries') :
                      entries'[i].event_type = "AUTHORITY_REVOKED" ]_vars

\* The tokens of one session revoked while an unrevoked token of another
\* session exists.
RevokeSessionTokensFrameWitness ==
  /\ last.op = "revoke_session_tokens"
  /\ Len(last.arg) = 2
  /\ Len(entries) = last.pre_len + Len(session_tokens[last.arg[1]])
  /\ \E id \in DOMAIN tokens :
       tokens[id].session_id = last.arg[1] /\ tokens[id].is_revoked
  /\ \E id \in DOMAIN tokens :
       tokens[id].session_id # last.arg[1] /\ ~tokens[id].is_revoked

====
